---------------------------- MODULE Spec2Model ----------------------------
(***************************************************************************)
(* Model of the OLED display driver (lib/oled/oled.c) and of the software  *)
(* TWI master (lib/hal/avr/twi_soft/twi_soft.c).                           *)
(*                                                                         *)
(* Spec     the display protocol layer: every oled_* function is one       *)
(*          action; the transport calls it makes are replayed, byte by     *)
(*          byte, against a simulated SSD1306 controller.                  *)
(* SpecTwi  the software transport on the two bus lines: every register    *)
(*          write, pin read and branch of twi_soft.c is one step; the      *)
(*          peer and a protocol analyser react to the line levels.         *)
(***************************************************************************)
EXTENDS Integers, Naturals, Sequences, FiniteSets, TLC

VARIABLES
    column_current_position,  \* oled.c:115
    page_current_position,    \* oled.c:115
    twi_soft_bus_status,      \* twi_soft.c:22
    gddram,                   \* display memory of the simulated controller
    ssd,                      \* addressing and bus-interface state of the controller
    bus,                      \* transport calls made by the last display operation
    op,                       \* the last display operation and its arguments
    lastpos,                  \* arguments of the last oled_position call that passed its guard
    nops,                     \* number of display operations performed
    TWI_SOFT_PORT,            \* PORTB bits of the two lines, twi_soft.h:90
    TWI_SOFT_DDR,             \* DDRB bits of the two lines, twi_soft.h:79
    pullup,                   \* build option TWI_SOFT_PULLUP_ENABLE, twi_soft.h:64
    pc,                       \* position of the transport code ("idle": in the caller)
    sub,                      \* register write of the current line macro (1 or 2)
    loc,                      \* local variables and arguments of the running call
    ret,                      \* value returned by the last call
    call,                     \* the running (or last) transport call
    script,                   \* the caller: a fixed call sequence, or free choice
    peer,                     \* what the other devices on the bus do to the lines
    wire,                     \* protocol analyser on the two lines
    pulses,                   \* times the running call has released the clock line
    sent,                     \* data bits the running call has put on the data line
    TWCR,                     \* control register of the TWI peripheral, twi.c:98
    TWSR,                     \* status register of the TWI peripheral, twi.c:105
    TWDR,                     \* data register of the TWI peripheral, twi.c:170
    hw,                       \* what the TWI peripheral is doing on the bus
    tty_character,            \* tty.c:25
    tty_line,                 \* tty.c:26
    tty_scroll,               \* tty.c:29
    SREG_I,                   \* global interrupt enable: cli()/sei(), twi_soft.c:92, 103
    block_ie,                 \* build option TWI_SOFT_BLOCK_IE, twi_soft.h:158
    sreg_entry                \* SREG_I when the running transport call was entered

oledvars == <<column_current_position, page_current_position,
              gddram, ssd, bus, op, lastpos, nops>>

twivars == <<TWI_SOFT_PORT, TWI_SOFT_DDR, pullup, pc, sub, loc, ret, call,
             script, peer, wire, pulses, sent>>

hwvars == <<TWCR, TWSR, TWDR, hw>>

ttyvars == <<tty_character, tty_line, tty_scroll>>

ievars == <<SREG_I, block_ie, sreg_entry>>

vars == <<oledvars, twi_soft_bus_status, twivars, hwvars, ttyvars, ievars>>

(* Interrupts are disabled after reset; TWI_SOFT_BLOCK_IE is not defined   *)
(* unless the build defines it.                                            *)
InterruptReset ==
    /\ SREG_I = FALSE
    /\ block_ie = FALSE
    /\ sreg_entry = FALSE

(* Registers of the TWI peripheral after reset, the peripheral idle.       *)
HardwareReset ==
    /\ TWCR = 0
    /\ TWSR = 248
    /\ TWDR = 255
    /\ hw = [mode |-> "idle", job |-> "none"]

(* The statics of tty.c as tty_init leaves them.                           *)
TtyReset ==
    /\ tty_character = 0
    /\ tty_line = 0
    /\ tty_scroll = 0

-----------------------------------------------------------------------------
(* Program constants                                                       *)

OLED_ADDRESS == 60
OLED_CONTROL_COMMAND == 128
OLED_CONTROL_DATA == 64
OLED_PAGE_SIZE == 8
OLED_ROW_SIZE == 64
OLED_COLUMN_SIZE == 128
OLED_CMD_SET_DISPLAY_OFFSET == 211
OLED_CMD_SET_PAGE_START_ADDRESS == 176
OLED_CMD_SET_LOWER_START_COLUMN_ADDRESS == 0
OLED_CMD_SET_HIGHER_START_COLUMN_ADDRESS == 16
CHAR_BIT == 8
TWI_Write == 0
TWI_Read == 1
TWI_NACK == 0
TWI_ACK == 1
TWI_SOFT_STATUS_TRANSMIT == 1

\* oled_init_commands[], oled.c:33-55, with the macro values of oled.h
oled_init_commands ==
    << 174, 168, 63, 211, 0, 64, 161, 200, 218, 18, 129, 127,
       164, 166, 213, 128, 32, 2, 141, 20, 175 >>

-----------------------------------------------------------------------------
(* Bounds of the model                                                     *)

MaxOps == 2

\* calls of the text terminal in one behaviour
MaxTtyOps == 3

-----------------------------------------------------------------------------
(* unsigned char arithmetic                                                *)

Byte == 0..255

RECURSIVE BitAnd(_, _)
BitAnd(a, b) ==
    IF a = 0 \/ b = 0 THEN 0
    ELSE (IF a % 2 = 1 /\ b % 2 = 1 THEN 1 ELSE 0) + 2 * BitAnd(a \div 2, b \div 2)

RECURSIVE BitOr(_, _)
BitOr(a, b) ==
    IF a = 0 THEN b
    ELSE IF b = 0 THEN a
    ELSE (IF a % 2 = 1 \/ b % 2 = 1 THEN 1 ELSE 0) + 2 * BitOr(a \div 2, b \div 2)

\* x with bit n cleared / set (status flag updates)
ClearBits(x, mask) == x - BitAnd(x, mask)

\* (data << i) & 0x80, twi_soft.c:163: the bit put on the data line in round i
DataBit(data, i) == IF BitAnd(data * (2 ^ i), 128) # 0 THEN 1 ELSE 0

\* The byte a receiver assembles from the eight bits of twi_soft_set,
\* first bit received is the most significant one.
RECURSIVE Assemble(_, _, _)
Assemble(data, i, received) ==
    IF i = CHAR_BIT THEN received
    ELSE Assemble(data, i + 1, (2 * received + DataBit(data, i)) % 256)

OnWire == [data \in Byte |-> Assemble(data, 0, 0)]

-----------------------------------------------------------------------------
(* Simulated display controller (SSD1306 in page addressing mode).  It     *)
(* acknowledges every byte once addressed, interprets control bytes,       *)
(* commands and data, and auto-increments its column pointer.              *)

\* commands that take one argument byte
DoubleByteCommands == {129, 141, 168, 211, 213, 217, 218, 219, 32}

PeerCommand(m, b) ==
    IF m.ssd.pend # 0
    THEN [m EXCEPT !.ssd.pend = 0,
                   !.ssd.offset = IF m.ssd.pend = OLED_CMD_SET_DISPLAY_OFFSET
                                  THEN b % OLED_ROW_SIZE ELSE @]
    ELSE IF b \in DoubleByteCommands
    THEN [m EXCEPT !.ssd.pend = b]
    ELSE IF b >= OLED_CMD_SET_PAGE_START_ADDRESS /\ b < OLED_CMD_SET_PAGE_START_ADDRESS + 8
    THEN [m EXCEPT !.ssd.page = b - OLED_CMD_SET_PAGE_START_ADDRESS]
    ELSE IF b < 16
    THEN [m EXCEPT !.ssd.column = 16 * (@ \div 16) + b]
    ELSE IF b < 32
    THEN [m EXCEPT !.ssd.column = (16 * (b - 16) + (@ % 16)) % OLED_COLUMN_SIZE]
    ELSE m

PeerData(m, b) ==
    [m EXCEPT !.gddram[m.ssd.page][m.ssd.column] = b,
              !.ssd.column = (@ + 1) % OLED_COLUMN_SIZE]

\* One byte clocked out by the master, as seen by the controller.
PeerByte(m, b) ==
    CASE m.ssd.phase = "addr" ->
            IF b = 2 * OLED_ADDRESS
            THEN [m EXCEPT !.ssd.phase = "ctrl", !.ack = TRUE]
            ELSE [m EXCEPT !.ssd.phase = "deaf", !.ack = FALSE]
      [] m.ssd.phase = "ctrl" ->
            [m EXCEPT !.ack = TRUE,
                      !.ssd.phase =
                          IF b >= 128
                          THEN (IF BitAnd(b, 64) # 0 THEN "data1" ELSE "cmd1")
                          ELSE (IF BitAnd(b, 64) # 0 THEN "data" ELSE "cmd"),
                      !.opened =
                          IF BitAnd(b, 64) # 0
                          THEN Append(@, <<m.ssd.column, m.ssd.page, m.column, m.page>>)
                          ELSE @]
      [] m.ssd.phase = "cmd1" ->
            [PeerCommand(m, b) EXCEPT !.ack = TRUE, !.ssd.phase = "ctrl"]
      [] m.ssd.phase = "cmd" ->
            [PeerCommand(m, b) EXCEPT !.ack = TRUE]
      [] m.ssd.phase = "data1" ->
            [PeerData(m, b) EXCEPT !.ack = TRUE, !.ssd.phase = "ctrl"]
      [] m.ssd.phase = "data" ->
            [PeerData(m, b) EXCEPT !.ack = TRUE]
      [] OTHER -> [m EXCEPT !.ack = FALSE]

PeerStart(m) == [m EXCEPT !.ssd.phase = "addr"]
PeerStop(m) == [m EXCEPT !.ssd.phase = "idle"]

-----------------------------------------------------------------------------
(* Software transport as called by the display layer (whole calls)         *)

\* PORT and DDR as the line macros of this build (no pull-ups) leave them:
\* a LOW macro makes the pin an output, a HIGH macro an input, and the port
\* bit of SCL is cleared.
Released == [SCL |-> 0, SDA |-> 0]
HeldLow == [SCL |-> 1, SDA |-> 1]

\* the bus lines are read after both have been released: the call reports
\* TWI_SOFT_STATUS_BUS_ERROR (ack = FALSE) when one of them is still low
twi_soft_init(m) ==
    [m EXCEPT !.bus = Append(@, <<"init">>), !.port = Released, !.ddr = Released,
              !.ack = (m.resp # "stuck")]

twi_soft_disable(m) ==
    [m EXCEPT !.bus = Append(@, <<"disable">>), !.port = Released, !.ddr = Released]

\* SCL_HIGH, SDA_LOW, SCL_LOW
twi_soft_start(m) ==
    [PeerStart(m) EXCEPT !.status = BitOr(@, TWI_SOFT_STATUS_TRANSMIT),
                         !.bus = Append(@, <<"start">>),
                         !.port.SCL = 0, !.ddr = HeldLow]

\* SCL_LOW, SDA_LOW, SCL_HIGH, SDA_HIGH
twi_soft_stop(m) ==
    [PeerStop(m) EXCEPT !.status = ClearBits(@, TWI_SOFT_STATUS_TRANSMIT),
                        !.bus = Append(@, <<"stop">>),
                        !.port.SCL = 0, !.ddr = Released]

\* the eight data pulses and the acknowledge pulse of one byte; the call
\* ends with SCL_LOW, SDA_HIGH, SCL_HIGH
\* Without a device the acknowledge slot stays high (TWI_Ack); with another
\* master holding SDA low the first 1 bit of the byte is read back as 0 and
\* the call returns TWI_Arbitration right after SCL_LOW, SDA_HIGH.
ShiftOut(m, data) ==
    CASE m.resp = "nack" ->
            [m EXCEPT !.ack = FALSE, !.port.SCL = 0, !.ddr = Released]
      [] m.resp = "arbitration" ->
            IF OnWire[data] # 0
            THEN [m EXCEPT !.ack = FALSE, !.port.SCL = 0,
                           !.ddr = [SCL |-> 1, SDA |-> 0]]
            ELSE [m EXCEPT !.ack = TRUE, !.port.SCL = 0, !.ddr = Released]
      [] OTHER ->
            [PeerByte(m, OnWire[data]) EXCEPT !.port.SCL = 0, !.ddr = Released]

twi_soft_set(m, data) ==
    [ShiftOut(m, data) EXCEPT !.bus = Append(@, <<"set", data>>)]

twi_soft_address(m, address, operation) ==
    LET temp == BitOr((address * 2) % 256, BitAnd(1, operation))
    IN  [ShiftOut(m, temp) EXCEPT !.bus = Append(@, <<"address", address, operation>>)]

-----------------------------------------------------------------------------
(* Display protocol layer, oled.c                                          *)

\* A call has returned: used to evaluate the statements of a function in
\* program order, one after the other.
Returned(m) == m.ack \in BOOLEAN

\* statement; rest: the rest of a function runs on the machine the statement
\* leaves behind.
Then(m, rest(_)) == IF Returned(m) THEN rest(m) ELSE m

OLED_START(m, MODE) == twi_soft_address(twi_soft_start(m), OLED_ADDRESS, MODE)

\* variant: the frame is closed only after an acknowledged byte
OLED_STOP_acknowledged(m) == IF m.ack THEN twi_soft_stop(m) ELSE m

OLED_STOP(m) == twi_soft_stop(m)

\* variant: the data-control byte is sent only to a peer that answered
OLED_DATA_acknowledged(m) == IF m.ack THEN twi_soft_set(m, OLED_CONTROL_DATA) ELSE m

OLED_DATA(m) == twi_soft_set(m, OLED_CONTROL_DATA)

\* oled_command without its control byte
oled_command_bare(m, command) ==
    twi_soft_set(m, command)

oled_command(m, command) ==
    twi_soft_set(twi_soft_set(m, OLED_CONTROL_COMMAND), command)

\* oled_position without its page check
oled_position_nopage(m, column, page) ==
    IF column < OLED_COLUMN_SIZE
    THEN Then(OLED_START([m EXCEPT !.column = column, !.page = page,
                                    !.lastpos = <<column, page>>], TWI_Write),
           LAMBDA m1 :
         Then(oled_command(m1, BitOr(OLED_CMD_SET_PAGE_START_ADDRESS, BitAnd(7, page))),
           LAMBDA m2 :
         Then(oled_command(m2, BitOr(OLED_CMD_SET_LOWER_START_COLUMN_ADDRESS,
                                    BitAnd(15, column))),
           LAMBDA m3 :
         Then(oled_command(m3, BitOr(OLED_CMD_SET_HIGHER_START_COLUMN_ADDRESS,
                                    BitAnd(15, column \div 16))),
           LAMBDA m4 : OLED_STOP(m4)))))
    ELSE m

\* oled_position accepting column == OLED_COLUMN_SIZE
oled_position_offbyone(m, column, page) ==
    IF column <= OLED_COLUMN_SIZE /\ page < OLED_PAGE_SIZE
    THEN Then(OLED_START([m EXCEPT !.column = column, !.page = page,
                                    !.lastpos = <<column, page>>], TWI_Write),
           LAMBDA m1 :
         Then(oled_command(m1, BitOr(OLED_CMD_SET_PAGE_START_ADDRESS, BitAnd(7, page))),
           LAMBDA m2 :
         Then(oled_command(m2, BitOr(OLED_CMD_SET_LOWER_START_COLUMN_ADDRESS,
                                    BitAnd(15, column))),
           LAMBDA m3 :
         Then(oled_command(m3, BitOr(OLED_CMD_SET_HIGHER_START_COLUMN_ADDRESS,
                                    BitAnd(15, column \div 16))),
           LAMBDA m4 : OLED_STOP(m4)))))
    ELSE m

\* oled_position sending the higher column nibble before the lower one
oled_position_swapped(m, column, page) ==
    IF column < OLED_COLUMN_SIZE /\ page < OLED_PAGE_SIZE
    THEN Then(OLED_START([m EXCEPT !.column = column, !.page = page,
                                    !.lastpos = <<column, page>>], TWI_Write),
           LAMBDA m1 :
         Then(oled_command(m1, BitOr(OLED_CMD_SET_PAGE_START_ADDRESS, BitAnd(7, page))),
           LAMBDA m2 :
         Then(oled_command(m2, BitOr(OLED_CMD_SET_HIGHER_START_COLUMN_ADDRESS,
                                    BitAnd(15, column \div 16))),
           LAMBDA m3 :
         Then(oled_command(m3, BitOr(OLED_CMD_SET_LOWER_START_COLUMN_ADDRESS,
                                    BitAnd(15, column))),
           LAMBDA m4 : OLED_STOP(m4)))))
    ELSE m

oled_position(m, column, page) ==
    IF column < OLED_COLUMN_SIZE /\ page < OLED_PAGE_SIZE
    THEN Then(OLED_START([m EXCEPT !.column = column, !.page = page,
                                    !.lastpos = <<column, page>>], TWI_Write),
           LAMBDA m1 :
         Then(oled_command(m1, BitOr(OLED_CMD_SET_PAGE_START_ADDRESS, BitAnd(7, page))),
           LAMBDA m2 :
         Then(oled_command(m2, BitOr(OLED_CMD_SET_LOWER_START_COLUMN_ADDRESS,
                                    BitAnd(15, column))),
           LAMBDA m3 :
         Then(oled_command(m3, BitOr(OLED_CMD_SET_HIGHER_START_COLUMN_ADDRESS,
                                    BitAnd(15, column \div 16))),
           LAMBDA m4 : OLED_STOP(m4)))))
    ELSE m

OLED_HOME(m) == oled_position(m, 0, 0)

\* oled_scroll_vertical that accepts an offset equal to the row count
oled_scroll_vertical_inclusive(m, scroll) ==
    IF scroll > OLED_ROW_SIZE
    THEN m
    ELSE OLED_STOP(oled_command(oled_command(OLED_START(m, TWI_Write),
                                             OLED_CMD_SET_DISPLAY_OFFSET), scroll))

oled_scroll_vertical(m, scroll) ==
    IF scroll >= OLED_ROW_SIZE
    THEN m
    ELSE OLED_STOP(oled_command(oled_command(OLED_START(m, TWI_Write),
                                             OLED_CMD_SET_DISPLAY_OFFSET), scroll))

\* The rounds lo..hi of a loop are performed in increasing order; the range
\* is split in Ways consecutive parts only to keep the evaluation shallow.
Ways == 8

Min(a, b) == IF a < b THEN a ELSE b

\* for (i = column_start; i <= column_stop; i++) twi_soft_set(*(data++));
\* data is the caller's buffer; the byte sent in round i is data[i + d].
RECURSIVE SendData(_, _, _, _, _)
SendData(m, data, d, lo, hi) ==
    IF lo > hi THEN m
    ELSE IF lo = hi THEN twi_soft_set(m, data[lo + d])
    ELSE LET q == (hi - lo + Ways) \div Ways
             m1 == SendData(m, data, d, lo, Min(lo + q - 1, hi))
             m2 == SendData(m1, data, d, lo + q, Min(lo + 2 * q - 1, hi))
             m3 == SendData(m2, data, d, lo + 2 * q, Min(lo + 3 * q - 1, hi))
             m4 == SendData(m3, data, d, lo + 3 * q, Min(lo + 4 * q - 1, hi))
             m5 == SendData(m4, data, d, lo + 4 * q, Min(lo + 5 * q - 1, hi))
             m6 == SendData(m5, data, d, lo + 5 * q, Min(lo + 6 * q - 1, hi))
             m7 == SendData(m6, data, d, lo + 6 * q, Min(lo + 7 * q - 1, hi))
             m8 == SendData(m7, data, d, lo + 7 * q, hi)
         IN  IF /\ Returned(m1) /\ Returned(m2) /\ Returned(m3) /\ Returned(m4)
                /\ Returned(m5) /\ Returned(m6) /\ Returned(m7)
             THEN m8 ELSE m

\* for (i = 0; i <= column_stop; i++) twi_soft_set(0x00);
RECURSIVE SendZeros(_, _, _)
SendZeros(m, lo, hi) ==
    IF lo > hi THEN m
    ELSE IF lo = hi THEN twi_soft_set(m, 0)
    ELSE LET q == (hi - lo + Ways) \div Ways
             m1 == SendZeros(m, lo, Min(lo + q - 1, hi))
             m2 == SendZeros(m1, lo + q, Min(lo + 2 * q - 1, hi))
             m3 == SendZeros(m2, lo + 2 * q, Min(lo + 3 * q - 1, hi))
             m4 == SendZeros(m3, lo + 3 * q, Min(lo + 4 * q - 1, hi))
             m5 == SendZeros(m4, lo + 4 * q, Min(lo + 5 * q - 1, hi))
             m6 == SendZeros(m5, lo + 5 * q, Min(lo + 6 * q - 1, hi))
             m7 == SendZeros(m6, lo + 6 * q, Min(lo + 7 * q - 1, hi))
             m8 == SendZeros(m7, lo + 7 * q, hi)
         IN  IF /\ Returned(m1) /\ Returned(m2) /\ Returned(m3) /\ Returned(m4)
                /\ Returned(m5) /\ Returned(m6) /\ Returned(m7)
             THEN m8 ELSE m

\* oled_page_segment whose loop stops one column early
oled_page_segment_short(m, data, at, column_start, column_stop, page) ==
    IF page >= OLED_PAGE_SIZE \/ column_stop >= OLED_COLUMN_SIZE
                              \/ column_start >= column_stop
    THEN m
    ELSE Then(oled_position(m, column_start, page),
           LAMBDA m1 :
         Then(OLED_DATA(OLED_START(m1, TWI_Write)),
           LAMBDA m2 :
         Then(SendData(m2, data, at - column_start, column_start, column_stop - 1),
           LAMBDA m3 : OLED_STOP(m3))))

\* oled_page_segment that accepts column_start == column_stop
oled_page_segment_single(m, data, at, column_start, column_stop, page) ==
    IF page >= OLED_PAGE_SIZE \/ column_stop >= OLED_COLUMN_SIZE
                              \/ column_start > column_stop
    THEN m
    ELSE Then(oled_position(m, column_start, page),
           LAMBDA m1 :
         Then(OLED_DATA(OLED_START(m1, TWI_Write)),
           LAMBDA m2 :
         Then(SendData(m2, data, at - column_start, column_start, column_stop),
           LAMBDA m3 : OLED_STOP(m3))))

\* data is the caller's buffer and at the offset of the pointer into it
oled_page_segment(m, data, at, column_start, column_stop, page) ==
    IF page >= OLED_PAGE_SIZE \/ column_stop >= OLED_COLUMN_SIZE
                              \/ column_start >= column_stop
    THEN m
    ELSE Then(oled_position(m, column_start, page),
           LAMBDA m1 :
         Then(OLED_DATA(OLED_START(m1, TWI_Write)),
           LAMBDA m2 :
         Then(SendData(m2, data, at - column_start, column_start, column_stop),
           LAMBDA m3 : OLED_STOP(m3))))

oled_page(m, data, at, page) ==
    IF page >= OLED_PAGE_SIZE
    THEN m
    ELSE oled_page_segment(m, data, at, 0, OLED_COLUMN_SIZE - 1, page)

\* for (i = 0; i < OLED_PAGE_SIZE; i++) oled_page(&frame[i * OLED_PAGE_SIZE], i);
RECURSIVE FramePages(_, _, _, _)
FramePages(m, frame, lo, hi) ==
    IF lo > hi THEN m
    ELSE IF lo = hi THEN oled_page(m, frame, lo * OLED_PAGE_SIZE, lo)
    ELSE LET q == (hi - lo + Ways) \div Ways
             m1 == FramePages(m, frame, lo, Min(lo + q - 1, hi))
             m2 == FramePages(m1, frame, lo + q, Min(lo + 2 * q - 1, hi))
             m3 == FramePages(m2, frame, lo + 2 * q, Min(lo + 3 * q - 1, hi))
             m4 == FramePages(m3, frame, lo + 3 * q, Min(lo + 4 * q - 1, hi))
             m5 == FramePages(m4, frame, lo + 4 * q, Min(lo + 5 * q - 1, hi))
             m6 == FramePages(m5, frame, lo + 5 * q, Min(lo + 6 * q - 1, hi))
             m7 == FramePages(m6, frame, lo + 6 * q, Min(lo + 7 * q - 1, hi))
             m8 == FramePages(m7, frame, lo + 7 * q, hi)
         IN  IF /\ Returned(m1) /\ Returned(m2) /\ Returned(m3) /\ Returned(m4)
                /\ Returned(m5) /\ Returned(m6) /\ Returned(m7)
             THEN m8 ELSE m

oled_frame(m, frame) ==
    LET m1 == OLED_HOME(m)
    IN  IF Returned(m1) THEN FramePages(m1, frame, 0, OLED_PAGE_SIZE - 1) ELSE m

oled_column(m, data, column, page) ==
    IF page >= OLED_PAGE_SIZE \/ column >= OLED_COLUMN_SIZE
    THEN m
    ELSE Then(oled_position(m, column, page),
           LAMBDA m1 :
         Then(OLED_DATA(OLED_START(m1, TWI_Write)),
           LAMBDA m2 :
         Then(twi_soft_set(m2, data),
           LAMBDA m3 : OLED_STOP(m3))))

oled_clear_page_segment(m, column_start, column_stop, page) ==
    IF page >= OLED_PAGE_SIZE \/ column_stop >= OLED_COLUMN_SIZE
                              \/ column_start >= column_stop
    THEN m
    ELSE Then(oled_position(m, column_start, page),
           LAMBDA m1 :
         Then(OLED_DATA(OLED_START(m1, TWI_Write)),
           LAMBDA m2 :
         Then(SendZeros(m2, 0, column_stop),
           LAMBDA m3 : OLED_STOP(m3))))

\* oled_clear_page that leaves the last column out
oled_clear_page_short(m, page) == oled_clear_page_segment(m, 0, OLED_COLUMN_SIZE - 2, page)

oled_clear_page(m, page) == oled_clear_page_segment(m, 0, OLED_COLUMN_SIZE - 1, page)

\* for (i = 0; i < OLED_PAGE_SIZE; i++) oled_clear_page(i);
RECURSIVE ClearPages(_, _, _)
ClearPages(m, lo, hi) ==
    IF lo > hi THEN m
    ELSE IF lo = hi THEN oled_clear_page(m, lo)
    ELSE LET q == (hi - lo + Ways) \div Ways
             m1 == ClearPages(m, lo, Min(lo + q - 1, hi))
             m2 == ClearPages(m1, lo + q, Min(lo + 2 * q - 1, hi))
             m3 == ClearPages(m2, lo + 2 * q, Min(lo + 3 * q - 1, hi))
             m4 == ClearPages(m3, lo + 3 * q, Min(lo + 4 * q - 1, hi))
             m5 == ClearPages(m4, lo + 4 * q, Min(lo + 5 * q - 1, hi))
             m6 == ClearPages(m5, lo + 5 * q, Min(lo + 6 * q - 1, hi))
             m7 == ClearPages(m6, lo + 6 * q, Min(lo + 7 * q - 1, hi))
             m8 == ClearPages(m7, lo + 7 * q, hi)
         IN  IF /\ Returned(m1) /\ Returned(m2) /\ Returned(m3) /\ Returned(m4)
                /\ Returned(m5) /\ Returned(m6) /\ Returned(m7)
             THEN m8 ELSE m

oled_clear(m) ==
    LET m1 == ClearPages(m, 0, OLED_PAGE_SIZE - 1)
    IN  IF Returned(m1) THEN OLED_HOME(m1) ELSE m

oled_clear_column(m, column, page) ==
    Then(oled_position(m, column, page),
        LAMBDA m1 :
      Then(OLED_DATA(OLED_START(m1, TWI_Write)),
        LAMBDA m2 :
      Then(twi_soft_set(m2, 0),
        LAMBDA m3 : OLED_STOP(m3))))

\* for (i = 0; i < sizeof(oled_init_commands); i++) oled_command(oled_init_commands[i]);
\* rounds lo..hi, in increasing order
RECURSIVE InitCommands(_, _, _)
InitCommands(m, lo, hi) ==
    IF lo > hi THEN m
    ELSE IF lo = hi THEN oled_command(m, oled_init_commands[lo + 1])
    ELSE LET q == (hi - lo + Ways) \div Ways
             m1 == InitCommands(m, lo, Min(lo + q - 1, hi))
             m2 == InitCommands(m1, lo + q, Min(lo + 2 * q - 1, hi))
             m3 == InitCommands(m2, lo + 2 * q, Min(lo + 3 * q - 1, hi))
             m4 == InitCommands(m3, lo + 3 * q, Min(lo + 4 * q - 1, hi))
             m5 == InitCommands(m4, lo + 4 * q, Min(lo + 5 * q - 1, hi))
             m6 == InitCommands(m5, lo + 5 * q, Min(lo + 6 * q - 1, hi))
             m7 == InitCommands(m6, lo + 6 * q, Min(lo + 7 * q - 1, hi))
             m8 == InitCommands(m7, lo + 7 * q, hi)
         IN  IF /\ Returned(m1) /\ Returned(m2) /\ Returned(m3) /\ Returned(m4)
                /\ Returned(m5) /\ Returned(m6) /\ Returned(m7)
             THEN m8 ELSE m

\* oled_init that clears the display before it configures the controller
oled_init_clearfirst(m) ==
    LET m0 == oled_clear(twi_soft_init(m))
        m1 == IF Returned(m0) THEN OLED_START(m0, TWI_Write) ELSE m0
    IN  IF Returned(m1)
        THEN OLED_STOP(InitCommands(m1, 0, Len(oled_init_commands) - 1))
        ELSE m1

oled_init(m) ==
    Then(OLED_START(twi_soft_init(m), TWI_Write),
      LAMBDA m1 :
    Then(InitCommands(m1, 0, Len(oled_init_commands) - 1),
      LAMBDA m2 :
    Then(OLED_STOP(m2),
      LAMBDA m3 : oled_clear(m3))))

\* oled_disable that switches the display off before it lets go of the bus
oled_disable_displayoff(m) ==
    twi_soft_disable(OLED_STOP(oled_command(OLED_START(m, TWI_Write), 174)))

oled_disable(m) == twi_soft_disable(m)

-----------------------------------------------------------------------------
(* State of the display layer and its caller                               *)

\* Buffers the caller passes to the write operations.
Buffer(id) ==
    IF id = 1 THEN [i \in 0..1023 |-> (i % 251) + 1]
    ELSE [i \in 0..1023 |-> (7 * i + 3) % 256]

BufferIds == {1, 2}

\* Display memory contents before the first operation.
InitialRam ==
    { [p \in 0..(OLED_PAGE_SIZE - 1) |-> [c \in 0..(OLED_COLUMN_SIZE - 1) |-> 255]],
      [p \in 0..(OLED_PAGE_SIZE - 1) |-> [c \in 0..(OLED_COLUMN_SIZE - 1) |-> (16 * p + c) % 256]] }

PositionArgs == {<<10, 3>>, <<127, 7>>, <<200, 3>>, <<10, 8>>, <<128, 0>>}
ScrollArgs == {63, 64}
SegmentArgs == {<<10, 13, 3>>, <<126, 127, 7>>, <<5, 5, 1>>,
                <<13, 10, 3>>, <<10, 128, 3>>, <<10, 13, 8>>}
ColumnArgs == {<<127, 7>>, <<128, 3>>, <<10, 8>>}
PageArgs == {7, 8}
ColumnData == {165}

\* The machine state the oled_* operators work on, at the start of an operation.
Machine ==
    [column |-> column_current_position, page |-> page_current_position,
     status |-> twi_soft_bus_status, gddram |-> gddram, ssd |-> ssd,
     bus |-> <<>>, lastpos |-> <<>>, ack |-> FALSE,
     port |-> TWI_SOFT_PORT, ddr |-> TWI_SOFT_DDR, resp |-> peer.kind,
     opened |-> <<>>]

\* what an operation leaves behind in the variables
Store(m, o) ==
    /\ column_current_position' = m.column
    /\ page_current_position' = m.page
    /\ twi_soft_bus_status' = m.status
    /\ gddram' = m.gddram
    /\ ssd' = m.ssd
    /\ bus' = m.bus
    /\ lastpos' = m.lastpos
    /\ op' = o
    /\ nops' = nops + 1
    /\ TWI_SOFT_PORT' = m.port
    /\ TWI_SOFT_DDR' = m.ddr
    /\ UNCHANGED <<pullup, pc, sub, loc, ret, call, script, peer, wire, pulses, sent>>
    /\ UNCHANGED hwvars
    /\ UNCHANGED ievars

Commit(m, o) == nops < MaxOps /\ Store(m, o)

Return(m, o) == Commit(m, o) /\ UNCHANGED ttyvars

Init ==
    /\ column_current_position = 0
    /\ page_current_position = 0
    /\ twi_soft_bus_status = 0
    /\ gddram \in InitialRam
    /\ ssd = [page |-> 0, column |-> 0, phase |-> "idle", pend |-> 0, offset |-> 0]
    /\ bus = <<>>
    /\ op = [name |-> "none"]
    /\ lastpos = <<>>
    /\ nops = 0
    /\ HardwareReset
    /\ TtyReset
    /\ InterruptReset
    /\ TWI_SOFT_PORT = [SCL |-> 0, SDA |-> 0]
    /\ TWI_SOFT_DDR = [SCL |-> 0, SDA |-> 0]
    /\ pullup = FALSE
    /\ pc = "idle"
    /\ sub = 1
    /\ loc = [i |-> 0, temp |-> 0, data |-> 0, received |-> 0, error |-> "TWI_None"]
    /\ ret = "TWI_None"
    /\ call = [fn |-> "none", a |-> 0, b |-> 0]
    /\ script = [id |-> "none", rest |-> <<>>]
    /\ peer = [kind |-> "ack", scl |-> FALSE, sda |-> FALSE, count |-> 0, active |-> FALSE]
    /\ wire = [rec |-> FALSE, n |-> 0, acc |-> 0, log |-> <<>>]
    /\ pulses = 0
    /\ sent = <<>>

Call_oled_init ==
    Return(oled_init(Machine), [name |-> "oled_init"])

Call_oled_disable ==
    Return(oled_disable(Machine), [name |-> "oled_disable"])

Call_oled_position ==
    \E a \in PositionArgs :
        Return(oled_position(Machine, a[1], a[2]),
               [name |-> "oled_position", column |-> a[1], page |-> a[2]])

Call_oled_scroll_vertical ==
    \E scroll \in ScrollArgs :
        Return(oled_scroll_vertical(Machine, scroll),
               [name |-> "oled_scroll_vertical", scroll |-> scroll])

Call_oled_frame ==
    \E id \in BufferIds :
        Return(oled_frame(Machine, Buffer(id)), [name |-> "oled_frame", buffer |-> id])

Call_oled_page ==
    \E id \in BufferIds, page \in PageArgs :
        Return(oled_page(Machine, Buffer(id), 0, page),
               [name |-> "oled_page", buffer |-> id, page |-> page])

Call_oled_page_segment ==
    \E id \in BufferIds, a \in SegmentArgs :
        Return(oled_page_segment(Machine, Buffer(id), 0, a[1], a[2], a[3]),
               [name |-> "oled_page_segment", buffer |-> id,
                column_start |-> a[1], column_stop |-> a[2], page |-> a[3]])

Call_oled_column ==
    \E data \in ColumnData, a \in ColumnArgs :
        Return(oled_column(Machine, data, a[1], a[2]),
               [name |-> "oled_column", data |-> data, column |-> a[1], page |-> a[2]])

Call_oled_clear ==
    Return(oled_clear(Machine), [name |-> "oled_clear"])

Call_oled_clear_page ==
    \E page \in PageArgs :
        Return(oled_clear_page(Machine, page), [name |-> "oled_clear_page", page |-> page])

Call_oled_clear_page_segment ==
    \E a \in SegmentArgs :
        Return(oled_clear_page_segment(Machine, a[1], a[2], a[3]),
               [name |-> "oled_clear_page_segment",
                column_start |-> a[1], column_stop |-> a[2], page |-> a[3]])

Call_oled_clear_column ==
    \E a \in ColumnArgs :
        Return(oled_clear_column(Machine, a[1], a[2]),
               [name |-> "oled_clear_column", column |-> a[1], page |-> a[2]])

Next ==
    \/ Call_oled_init
    \/ Call_oled_disable
    \/ Call_oled_position
    \/ Call_oled_scroll_vertical
    \/ Call_oled_frame
    \/ Call_oled_page
    \/ Call_oled_page_segment
    \/ Call_oled_column
    \/ Call_oled_clear
    \/ Call_oled_clear_page
    \/ Call_oled_clear_page_segment
    \/ Call_oled_clear_column

Spec == Init /\ [][Next]_vars

CursorInBounds ==
    column_current_position < OLED_COLUMN_SIZE /\ page_current_position < OLED_PAGE_SIZE

-----------------------------------------------------------------------------
(* Properties of the display protocol layer                                *)

Cursor == <<column_current_position, page_current_position>>

ValidSegment(o) ==
    o.page < OLED_PAGE_SIZE /\ o.column_stop < OLED_COLUMN_SIZE
                            /\ o.column_start < o.column_stop

\* display memory ram with the bytes data[0], data[1], ... stored at the
\* columns column_start..column_stop of one page, all other cells as they were
Written(ram, data, column_start, column_stop, page) ==
    [ram EXCEPT ![page] =
        [c \in 0..(OLED_COLUMN_SIZE - 1) |->
            IF column_start <= c /\ c <= column_stop THEN data[c - column_start]
            ELSE ram[page][c]]]

Zeros == [i \in 0..1023 |-> 0]

\* the last transaction of a log of transport calls: its position, and the
\* bytes sent after the address and the control byte
LastStart(log) ==
    CHOOSE i \in 1..Len(log) :
        log[i][1] = "start" /\ \A j \in (i + 1)..Len(log) : log[j][1] # "start"

Payload(log) == SubSeq(log, LastStart(log) + 3, Len(log) - 1)

\* C1: after oled_page_segment with column_start < column_stop < 128 and
\* page < 8, the page holds exactly the written bytes, in order, at the
\* columns column_start..column_stop, and every other cell is unchanged.
C1_SegmentReadBack ==
    [][ (op'.name = "oled_page_segment" /\ ValidSegment(op'))
        => gddram' = Written(gddram, Buffer(op'.buffer), op'.column_start,
                             op'.column_stop, op'.page) ]_vars

C1_Witness ==
    /\ op.name = "oled_page_segment"
    /\ ValidSegment(op)
    /\ nops = 2
    /\ \A c \in op.column_start..op.column_stop :
          gddram[op.page][c] = Buffer(op.buffer)[c - op.column_start]

\* C2: after oled_frame with a page-major buffer of 8*128 bytes, cell (p, c)
\* of display memory equals buffer[p*128 + c].
C2_FramePageMajor ==
    op.name = "oled_frame"
    => \A p \in 0..(OLED_PAGE_SIZE - 1), c \in 0..(OLED_COLUMN_SIZE - 1) :
          gddram[p][c] = Buffer(op.buffer)[p * OLED_COLUMN_SIZE + c]

\* C3: after oled_clear every cell of display memory is zero and the Cursor
\* is (0, 0), whatever the memory and the Cursor were before.
C3_ClearAll ==
    op.name = "oled_clear"
    => /\ \A p \in 0..(OLED_PAGE_SIZE - 1), c \in 0..(OLED_COLUMN_SIZE - 1) :
             gddram[p][c] = 0
       /\ Cursor = <<0, 0>>

C3_Witness ==
    /\ op.name = "oled_clear"
    /\ nops = 2
    /\ gddram[7][127] = 0

\* C4: oled_clear_page_segment with valid arguments transmits exactly
\* column_stop - column_start + 1 zero bytes after one data-control byte, so that
\* only the columns column_start..column_stop of the page become zero.
C4_ClearSegmentFraming ==
    [][ (op'.name = "oled_clear_page_segment" /\ ValidSegment(op'))
        => /\ gddram' = Written(gddram, Zeros, op'.column_start, op'.column_stop, op'.page)
           /\ bus'[LastStart(bus') + 2] = <<"set", OLED_CONTROL_DATA>>
           /\ Len(Payload(bus')) = op'.column_stop - op'.column_start + 1
           /\ \A i \in 1..Len(Payload(bus')) : Payload(bus')[i] = <<"set", 0>> ]_vars

\* C5: oled_page_segment with page >= 8, column_stop >= 128 or
\* column_start >= column_stop invokes no transport operation and leaves the
\* Cursor, the display memory and the controller untouched.
C5_RejectedSegmentSilent ==
    [][ (op'.name = "oled_page_segment" /\ ~ValidSegment(op'))
        => /\ bus' = <<>>
           /\ UNCHANGED <<column_current_position, page_current_position,
                          gddram, ssd, twi_soft_bus_status>> ]_vars

C5_Witness ==
    /\ op.name = "oled_page_segment"
    /\ op.column_start = op.column_stop
    /\ Cursor = <<10, 3>>
    /\ bus = <<>>

\* C6: oled_position with column >= 128 or page >= 8 leaves the Cursor as it
\* was and performs no bus transaction.
C6_RejectedPositionSilent ==
    [][ (op'.name = "oled_position"
            /\ (op'.column >= OLED_COLUMN_SIZE \/ op'.page >= OLED_PAGE_SIZE))
        => /\ bus' = <<>>
           /\ UNCHANGED <<column_current_position, page_current_position>> ]_vars

C6_Witness ==
    /\ op.name = "oled_position"
    /\ op.column = 200 /\ op.page = 3
    /\ Cursor = <<10, 3>>

\* C7: the Cursor always satisfies column < 128 and page < 8, and an
\* operation changes it only through a call of oled_position that passed its
\* range check (the Cursor then holds that call's arguments).
C7_CursorOwnedByPosition ==
    [][ /\ CursorInBounds'
        /\ (Cursor' # Cursor => lastpos' = Cursor') ]_vars

C7_Witness ==
    /\ op.name = "oled_clear_column"
    /\ op.column >= OLED_COLUMN_SIZE
    /\ Cursor = <<127, 7>>
    /\ bus # <<>>

-----------------------------------------------------------------------------
(* Software transport on the two bus lines, twi_soft.h / twi_soft.c        *)

\* The line macros of twi_soft.h:187-197, as their two register writes
\* <<register, bit, value>>; pu is TWI_SOFT_PULLUP_ENABLE.
\* SCL_LOW making the pin an output before it clears the port bit
SCL_LOW_ddrfirst(pu) == << <<"DDR", "SCL", 1>>, <<"PORT", "SCL", 0>> >>

\* SCL_LOW that names the data line in its direction write
SCL_LOW_data(pu) == << <<"PORT", "SCL", 0>>, <<"DDR", "SDA", 1>> >>

SCL_LOW(pu) == << <<"PORT", "SCL", 0>>, <<"DDR", "SCL", 1>> >>

SDA_LOW(pu) ==
    IF pu THEN << <<"PORT", "SDA", 0>>, <<"DDR", "SDA", 1>> >>
    ELSE << <<"PORT", "SCL", 0>>, <<"DDR", "SDA", 1>> >>

SCL_HIGH(pu) ==
    IF pu THEN << <<"DDR", "SCL", 0>>, <<"PORT", "SCL", 1>> >>
    ELSE << <<"DDR", "SCL", 0>>, <<"PORT", "SCL", 0>> >>

SDA_HIGH(pu) ==
    IF pu THEN << <<"DDR", "SDA", 0>>, <<"PORT", "SDA", 1>> >>
    ELSE << <<"DDR", "SDA", 0>>, <<"PORT", "SCL", 0>> >>

\* The master pulls a line low when the pin is an output with value 0; any
\* other setting leaves the level to the pull-up and to the other devices.
DrivenLow(l, port, ddr) == ddr[l] = 1 /\ port[l] = 0

Level(l, port, ddr, p) ==
    IF DrivenLow(l, port, ddr) \/ (IF l = "SCL" THEN p.scl ELSE p.sda) THEN 0 ELSE 1

\* TWI_SOFT_PIN & (1<<l)
Pin(l) == Level(l, TWI_SOFT_PORT, TWI_SOFT_DDR, peer)

\* What a change of the line levels means on the bus.
Edges(scl0, sda0, scl1, sda1) ==
    [start |-> scl0 = 1 /\ scl1 = 1 /\ sda0 = 1 /\ sda1 = 0,
     stop  |-> scl0 = 1 /\ scl1 = 1 /\ sda0 = 0 /\ sda1 = 1,
     rise  |-> scl0 = 0 /\ scl1 = 1,
     fall  |-> scl0 = 1 /\ scl1 = 0,
     bit   |-> sda1]

\* Protocol analyser: START and STOP conditions, bytes of eight bits sampled
\* at the rising clock edge (first bit most significant) and the ninth bit
\* as ACK or NACK.  A START or STOP discards an incomplete byte.
Analyse(w, e) ==
    IF ~w.rec THEN w
    ELSE IF e.start THEN [w EXCEPT !.n = 0, !.acc = 0, !.log = Append(@, <<"START">>)]
    ELSE IF e.stop THEN [w EXCEPT !.n = 0, !.acc = 0, !.log = Append(@, <<"STOP">>)]
    ELSE IF e.rise /\ w.n < 7 THEN [w EXCEPT !.n = @ + 1, !.acc = 2 * @ + e.bit]
    ELSE IF e.rise /\ w.n = 7
    THEN [w EXCEPT !.n = 8, !.acc = 0, !.log = Append(@, <<"BYTE", 2 * w.acc + e.bit>>)]
    ELSE IF e.rise
    THEN [w EXCEPT !.n = 0, !.log = Append(@, IF e.bit = 0 THEN <<"ACK">> ELSE <<"NACK">>)]
    ELSE w

\* The other devices on the bus.
\*   "ack": a slave that acknowledges every byte after a START: it pulls the
\*          data line low at the falling clock edge after the eighth bit and
\*          releases it at the next falling clock edge.
\*   "any": at every falling edge of the master's clock, any choice of
\*          pulling the data line low (acknowledge, data of a slave, another
\*          master) and of holding the clock line low (clock stretching).
PeerReact(p, e, mfall) ==
    IF p.kind = "any"
    THEN IF mfall THEN {[p EXCEPT !.sda = d, !.scl = c] : d \in BOOLEAN, c \in BOOLEAN}
         ELSE {p}
    ELSE IF e.start THEN {[p EXCEPT !.active = TRUE, !.count = 0, !.sda = FALSE]}
    ELSE IF e.stop THEN {[p EXCEPT !.active = FALSE, !.count = 0, !.sda = FALSE]}
    ELSE IF ~p.active THEN {p}
    ELSE IF e.rise THEN {[p EXCEPT !.count = @ + 1]}
    ELSE IF e.fall /\ p.count = 8 THEN {[p EXCEPT !.sda = TRUE]}
    ELSE IF e.fall /\ p.count = 9 THEN {[p EXCEPT !.sda = FALSE, !.count = 0]}
    ELSE {p}

\* One write to PORT or DDR, and what the bus makes of it.
BusWrite(port2, ddr2) ==
    LET e == Edges(Pin("SCL"), Pin("SDA"),
                   Level("SCL", port2, ddr2, peer), Level("SDA", port2, ddr2, peer))
        mfall == ~DrivenLow("SCL", TWI_SOFT_PORT, TWI_SOFT_DDR)
                     /\ DrivenLow("SCL", port2, ddr2)
        release == DrivenLow("SCL", TWI_SOFT_PORT, TWI_SOFT_DDR)
                     /\ ~DrivenLow("SCL", port2, ddr2)
    IN  /\ TWI_SOFT_PORT' = port2
        /\ TWI_SOFT_DDR' = ddr2
        /\ peer' \in PeerReact(peer, e, mfall)
        /\ wire' = Analyse(wire, e)
        /\ pulses' = IF release THEN pulses + 1 ELSE pulses

NoBus == UNCHANGED <<TWI_SOFT_PORT, TWI_SOFT_DDR, peer, wire, pulses, sub>>

Caller == UNCHANGED <<oledvars, pullup, call, script, hwvars, ttyvars, block_ie, sreg_entry>>

\* One of the two register writes of a line macro; the macro is left for
\* the label next after the second.
Macro(writes, next) ==
    LET w == writes[sub]
    IN  /\ BusWrite(IF w[1] = "PORT" THEN [TWI_SOFT_PORT EXCEPT ![w[2]] = w[3]]
                    ELSE TWI_SOFT_PORT,
                    IF w[1] = "DDR" THEN [TWI_SOFT_DDR EXCEPT ![w[2]] = w[3]]
                    ELSE TWI_SOFT_DDR)
        /\ sub' = IF sub = 1 THEN 2 ELSE 1
        /\ pc' = IF sub = 1 THEN pc ELSE next

Leave(value) ==
    /\ pc' = "idle"
    /\ ret' = value
    /\ NoBus

\* twi_soft_init that looks at the clock line only
Step_twi_soft_init_sclonly ==
    /\ Caller
    /\ UNCHANGED SREG_I
    /\ UNCHANGED <<twi_soft_bus_status, loc, sent>>
    /\ \/ /\ pc = "init"
          /\ BusWrite([SCL |-> 0, SDA |-> 0], TWI_SOFT_DDR)
          /\ pc' = "init_scl_high"
          /\ UNCHANGED <<sub, ret>>
       \/ /\ pc = "init_scl_high"
          /\ Macro(SCL_HIGH(pullup), "init_sda_high")
          /\ UNCHANGED ret
       \/ /\ pc = "init_sda_high"
          /\ Macro(SDA_HIGH(pullup), "init_check")
          /\ UNCHANGED ret
       \/ /\ pc = "init_check"
          /\ Leave(IF Pin("SCL") = 0
                   THEN "TWI_SOFT_STATUS_BUS_ERROR"
                   ELSE "TWI_SOFT_STATUS_BUS_INIT_COMPLETE")

\* twi_soft_init, twi_soft.c:32-48
Step_twi_soft_init ==
    /\ Caller
    /\ UNCHANGED SREG_I
    /\ UNCHANGED <<twi_soft_bus_status, loc, sent>>
    /\ \/ /\ pc = "init"
          /\ BusWrite([SCL |-> 0, SDA |-> 0], TWI_SOFT_DDR)
          /\ pc' = "init_scl_high"
          /\ UNCHANGED <<sub, ret>>
       \/ /\ pc = "init_scl_high"
          /\ Macro(SCL_HIGH(pullup), "init_sda_high")
          /\ UNCHANGED ret
       \/ /\ pc = "init_sda_high"
          /\ Macro(SDA_HIGH(pullup), "init_check")
          /\ UNCHANGED ret
       \/ /\ pc = "init_check"
          /\ Leave(IF Pin("SCL") = 0 \/ Pin("SDA") = 0
                   THEN "TWI_SOFT_STATUS_BUS_ERROR"
                   ELSE "TWI_SOFT_STATUS_BUS_INIT_COMPLETE")

\* twi_soft_disable that resets the bus status as well
Step_twi_soft_disable_reset ==
    /\ Caller
    /\ UNCHANGED SREG_I
    /\ UNCHANGED <<loc, sent, sub, ret>>
    /\ \/ /\ pc = "disable"
          /\ BusWrite([SCL |-> 0, SDA |-> 0], TWI_SOFT_DDR)
          /\ pc' = "disable_ddr"
          /\ UNCHANGED twi_soft_bus_status
       \/ /\ pc = "disable_ddr"
          /\ BusWrite(TWI_SOFT_PORT, [SCL |-> 0, SDA |-> 0])
          /\ pc' = "idle"
          /\ twi_soft_bus_status' = 0

\* twi_soft_disable, twi_soft.c:56-60
Step_twi_soft_disable ==
    /\ Caller
    /\ UNCHANGED SREG_I
    /\ UNCHANGED <<twi_soft_bus_status, loc, sent, sub, ret>>
    /\ \/ /\ pc = "disable"
          /\ BusWrite([SCL |-> 0, SDA |-> 0], TWI_SOFT_DDR)
          /\ pc' = "disable_ddr"
       \/ /\ pc = "disable_ddr"
          /\ BusWrite(TWI_SOFT_PORT, [SCL |-> 0, SDA |-> 0])
          /\ pc' = "idle"

\* twi_soft_start, twi_soft.c:87-107; cli() and sei() are compiled in with
\* TWI_SOFT_BLOCK_IE
Step_twi_soft_start ==
    /\ Caller
    /\ UNCHANGED <<loc, sent>>
    /\ \/ /\ pc = "start"
          /\ twi_soft_bus_status' = BitOr(twi_soft_bus_status, TWI_SOFT_STATUS_TRANSMIT)
          /\ pc' = IF block_ie THEN "start_cli" ELSE "start_scl_high"
          /\ NoBus
          /\ UNCHANGED <<ret, SREG_I>>
       \/ /\ pc = "start_cli"                                  \* line 92
          /\ SREG_I' = FALSE
          /\ pc' = "start_scl_high"
          /\ NoBus
          /\ UNCHANGED <<twi_soft_bus_status, ret>>
       \/ /\ pc = "start_scl_high"
          /\ Macro(SCL_HIGH(pullup), "start_sda_low")
          /\ UNCHANGED <<twi_soft_bus_status, ret, SREG_I>>
       \/ /\ pc = "start_sda_low"
          /\ Macro(SDA_LOW(pullup), "start_scl_low")
          /\ UNCHANGED <<twi_soft_bus_status, ret, SREG_I>>
       \/ /\ pc = "start_scl_low"
          /\ Macro(SCL_LOW(pullup), IF block_ie THEN "start_sei" ELSE "start_return")
          /\ UNCHANGED <<twi_soft_bus_status, ret, SREG_I>>
       \/ /\ pc = "start_sei"                                  \* line 103
          /\ SREG_I' = TRUE
          /\ pc' = "start_return"
          /\ NoBus
          /\ UNCHANGED <<twi_soft_bus_status, ret>>
       \/ /\ pc = "start_return"
          /\ Leave("TWI_None")
          /\ UNCHANGED <<twi_soft_bus_status, SREG_I>>

\* twi_soft_stop releasing the data line before the clock line
Step_twi_soft_stop_datafirst ==
    /\ Caller
    /\ UNCHANGED SREG_I
    /\ UNCHANGED <<loc, sent, ret>>
    /\ \/ /\ pc = "stop"
          /\ Macro(SCL_LOW(pullup), "stop_sda_low")
          /\ UNCHANGED twi_soft_bus_status
       \/ /\ pc = "stop_sda_low"
          /\ Macro(SDA_LOW(pullup), "stop_scl_high")
          /\ UNCHANGED twi_soft_bus_status
       \/ /\ pc = "stop_scl_high"
          /\ Macro(SDA_HIGH(pullup), "stop_sda_high")
          /\ UNCHANGED twi_soft_bus_status
       \/ /\ pc = "stop_sda_high"
          /\ Macro(SCL_HIGH(pullup), "stop_status")
          /\ UNCHANGED twi_soft_bus_status
       \/ /\ pc = "stop_status"
          /\ twi_soft_bus_status' = ClearBits(twi_soft_bus_status, TWI_SOFT_STATUS_TRANSMIT)
          /\ pc' = "idle"
          /\ NoBus

\* twi_soft_stop, twi_soft.c:116-127
Step_twi_soft_stop ==
    /\ Caller
    /\ UNCHANGED SREG_I
    /\ UNCHANGED <<loc, sent, ret>>
    /\ \/ /\ pc = "stop"
          /\ Macro(SCL_LOW(pullup), "stop_sda_low")
          /\ UNCHANGED twi_soft_bus_status
       \/ /\ pc = "stop_sda_low"
          /\ Macro(SDA_LOW(pullup), "stop_scl_high")
          /\ UNCHANGED twi_soft_bus_status
       \/ /\ pc = "stop_scl_high"
          /\ Macro(SCL_HIGH(pullup), "stop_sda_high")
          /\ UNCHANGED twi_soft_bus_status
       \/ /\ pc = "stop_sda_high"
          /\ Macro(SDA_HIGH(pullup), "stop_status")
          /\ UNCHANGED twi_soft_bus_status
       \/ /\ pc = "stop_status"
          /\ twi_soft_bus_status' = ClearBits(twi_soft_bus_status, TWI_SOFT_STATUS_TRANSMIT)
          /\ pc' = "idle"
          /\ NoBus

Step_twi_soft_address_unshifted ==
    /\ Caller
    /\ UNCHANGED SREG_I
    /\ pc = "address"
    /\ loc' = [loc EXCEPT !.data = BitOr(call.a % 256, BitAnd(1, call.b)), !.i = 0]
    /\ pc' = "set_loop"
    /\ NoBus
    /\ UNCHANGED <<twi_soft_bus_status, sent, ret>>

\* twi_soft_address that drops the direction bit
Step_twi_soft_address_nodirection ==
    /\ Caller
    /\ UNCHANGED SREG_I
    /\ pc = "address"
    /\ loc' = [loc EXCEPT !.data = (call.a * 2) % 256, !.i = 0]
    /\ pc' = "set_loop"
    /\ NoBus
    /\ UNCHANGED <<twi_soft_bus_status, sent, ret>>

\* twi_soft_address, twi_soft.c:140-144: composes the address byte and
\* continues in twi_soft_set
Step_twi_soft_address ==
    /\ Caller
    /\ UNCHANGED SREG_I
    /\ pc = "address"
    /\ loc' = [loc EXCEPT !.data = BitOr((call.a * 2) % 256, BitAnd(1, call.b)), !.i = 0]
    /\ pc' = "set_loop"
    /\ NoBus
    /\ UNCHANGED <<twi_soft_bus_status, sent, ret>>

\* the wait on the clock line with its condition inverted
ClockReleased_inverted == Pin("SCL") = 0

\* the clock-stretching wait left without looking at the clock line
ClockReleased_nowait == TRUE

\* twi_soft.c:183, 228, 259: while(!(TWI_SOFT_PIN & (1<<TWI_SOFT_SCL))) ends
ClockReleased == Pin("SCL") = 1

\* twi_soft.c:175-176: the released data line reads low
ArbitrationLost_anybit == Pin("SDA") = 0

ArbitrationLost == loc.temp = 1 /\ Pin("SDA") = 0

\* twi_soft.c:193-198: the answer read in the acknowledge slot
AcknowledgeStatus_unread == "TWI_None"

AcknowledgeStatus == IF Pin("SDA") = 0 THEN "TWI_None" ELSE "TWI_Ack"

\* twi_soft_set, twi_soft.c:156-203
Step_twi_soft_set ==
    /\ Caller
    /\ UNCHANGED SREG_I
    /\ UNCHANGED twi_soft_bus_status
    /\ \/ /\ pc = "set_loop"                                   \* line 158
          /\ pc' = IF loc.i < CHAR_BIT THEN "set_scl_low" ELSE "set_ack_scl_low"
          /\ NoBus
          /\ UNCHANGED <<loc, sent, ret>>
       \/ /\ pc = "set_scl_low"                                \* lines 160-162
          /\ Macro(SCL_LOW(pullup), "set_bit")
          /\ loc' = [loc EXCEPT !.temp = 0]
          /\ UNCHANGED <<sent, ret>>
       \/ /\ pc = "set_bit"                                    \* line 163
          /\ pc' = IF DataBit(loc.data, loc.i) = 1 THEN "set_sda_high" ELSE "set_sda_low"
          /\ NoBus
          /\ UNCHANGED <<loc, sent, ret>>
       \/ /\ pc = "set_sda_high"                               \* lines 165-166
          /\ Macro(SDA_HIGH(pullup), "set_arbitration")
          /\ loc' = [loc EXCEPT !.temp = 1]
          /\ sent' = IF sub = 2 THEN Append(sent, 1) ELSE sent
          /\ UNCHANGED ret
       \/ /\ pc = "set_sda_low"                                \* line 170
          /\ Macro(SDA_LOW(pullup), "set_arbitration")
          /\ sent' = IF sub = 2 THEN Append(sent, 0) ELSE sent
          /\ UNCHANGED <<loc, ret>>
       \/ /\ pc = "set_arbitration"                            \* lines 172-179
          /\ IF ArbitrationLost
             THEN Leave("TWI_Arbitration")
             ELSE pc' = "set_scl_high" /\ NoBus /\ UNCHANGED ret
          /\ UNCHANGED <<loc, sent>>
       \/ /\ pc = "set_scl_high"                               \* line 180
          /\ Macro(SCL_HIGH(pullup), "set_stretch")
          /\ UNCHANGED <<loc, sent, ret>>
       \/ /\ pc = "set_stretch"                                \* lines 183-188
          /\ ClockReleased
          /\ pc' = "set_loop"
          /\ loc' = [loc EXCEPT !.i = @ + 1]
          /\ NoBus
          /\ UNCHANGED <<sent, ret>>
       \/ /\ pc = "set_ack_scl_low"                            \* line 189
          /\ Macro(SCL_LOW(pullup), "set_ack_sda_high")
          /\ UNCHANGED <<loc, sent, ret>>
       \/ /\ pc = "set_ack_sda_high"                           \* line 190
          /\ Macro(SDA_HIGH(pullup), "set_ack_sample")
          /\ UNCHANGED <<loc, sent, ret>>
       \/ /\ pc = "set_ack_sample"                             \* lines 191-198
          /\ loc' = [loc EXCEPT !.error = AcknowledgeStatus]
          /\ pc' = "set_ack_scl_high"
          /\ NoBus
          /\ UNCHANGED <<sent, ret>>
       \/ /\ pc = "set_ack_scl_high"                           \* line 200
          /\ Macro(SCL_HIGH(pullup), "set_return")
          /\ UNCHANGED <<loc, sent, ret>>
       \/ /\ pc = "set_return"                                 \* lines 201-202
          /\ Leave(loc.error)
          /\ UNCHANGED <<loc, sent>>

\* twi_soft_get that answers every byte with an acknowledge
Step_twi_soft_get_alwaysack ==
    /\ Caller
    /\ UNCHANGED SREG_I
    /\ UNCHANGED twi_soft_bus_status
    /\ \/ /\ pc = "get_loop"
          /\ pc' = IF loc.i < CHAR_BIT THEN "get_scl_low" ELSE "get_ack_scl_low"
          /\ NoBus
          /\ UNCHANGED <<loc, sent, ret>>
       \/ /\ pc = "get_scl_low"
          /\ Macro(SCL_LOW(pullup), "get_scl_high")
          /\ UNCHANGED <<loc, sent, ret>>
       \/ /\ pc = "get_scl_high"
          /\ Macro(SCL_HIGH(pullup), "get_stretch")
          /\ UNCHANGED <<loc, sent, ret>>
       \/ /\ pc = "get_stretch"
          /\ ClockReleased
          /\ pc' = "get_read"
          /\ NoBus
          /\ UNCHANGED <<loc, sent, ret>>
       \/ /\ pc = "get_read"
          /\ loc' = [loc EXCEPT !.received = BitOr((@ * 2) % 256, Pin("SDA")), !.i = @ + 1]
          /\ sent' = Append(sent, IF peer.sda THEN 0 ELSE 1)
          /\ pc' = "get_loop"
          /\ NoBus
          /\ UNCHANGED ret
       \/ /\ pc = "get_ack_scl_low"
          /\ Macro(SCL_LOW(pullup), "get_ack")
          /\ UNCHANGED <<loc, sent, ret>>
       \/ /\ pc = "get_ack"
          /\ pc' = "get_ack_sda_low"
          /\ NoBus
          /\ UNCHANGED <<loc, sent, ret>>
       \/ /\ pc = "get_ack_sda_low"
          /\ Macro(SDA_LOW(pullup), "get_ack_scl_high")
          /\ UNCHANGED <<loc, sent, ret>>
       \/ /\ pc = "get_ack_sda_high"
          /\ Macro(SDA_HIGH(pullup), "get_ack_scl_high")
          /\ UNCHANGED <<loc, sent, ret>>
       \/ /\ pc = "get_ack_scl_high"
          /\ Macro(SCL_HIGH(pullup), "get_ack_stretch")
          /\ UNCHANGED <<loc, sent, ret>>
       \/ /\ pc = "get_ack_stretch"
          /\ ClockReleased
          /\ pc' = "get_end_scl_low"
          /\ NoBus
          /\ UNCHANGED <<loc, sent, ret>>
       \/ /\ pc = "get_end_scl_low"
          /\ Macro(SCL_LOW(pullup), "get_end_sda_high")
          /\ UNCHANGED <<loc, sent, ret>>
       \/ /\ pc = "get_end_sda_high"
          /\ Macro(SDA_HIGH(pullup), "get_return")
          /\ UNCHANGED <<loc, sent, ret>>
       \/ /\ pc = "get_return"
          /\ loc' = [loc EXCEPT !.data = loc.received]
          /\ Leave("TWI_None")
          /\ UNCHANGED sent

\* twi_soft_get, twi_soft.c:216-271; call.a is the parameter acknowledge,
\* loc.data the byte that the parameter data points to, and sent collects
\* the bits the peer presents
Step_twi_soft_get ==
    /\ Caller
    /\ UNCHANGED SREG_I
    /\ UNCHANGED twi_soft_bus_status
    /\ \/ /\ pc = "get_loop"                                   \* line 220
          /\ pc' = IF loc.i < CHAR_BIT THEN "get_scl_low" ELSE "get_ack_scl_low"
          /\ NoBus
          /\ UNCHANGED <<loc, sent, ret>>
       \/ /\ pc = "get_scl_low"                                \* line 222
          /\ Macro(SCL_LOW(pullup), "get_scl_high")
          /\ UNCHANGED <<loc, sent, ret>>
       \/ /\ pc = "get_scl_high"                               \* line 225
          /\ Macro(SCL_HIGH(pullup), "get_stretch")
          /\ UNCHANGED <<loc, sent, ret>>
       \/ /\ pc = "get_stretch"                                \* lines 228-231
          /\ ClockReleased
          /\ pc' = "get_read"
          /\ NoBus
          /\ UNCHANGED <<loc, sent, ret>>
       \/ /\ pc = "get_read"                                   \* lines 235-239
          /\ loc' = [loc EXCEPT !.received = BitOr((@ * 2) % 256, Pin("SDA")), !.i = @ + 1]
          /\ sent' = Append(sent, IF peer.sda THEN 0 ELSE 1)
          /\ pc' = "get_loop"
          /\ NoBus
          /\ UNCHANGED ret
       \/ /\ pc = "get_ack_scl_low"                            \* line 243
          /\ Macro(SCL_LOW(pullup), "get_ack")
          /\ UNCHANGED <<loc, sent, ret>>
       \/ /\ pc = "get_ack"                                    \* line 245
          /\ pc' = IF call.a = TWI_ACK THEN "get_ack_sda_low" ELSE "get_ack_sda_high"
          /\ NoBus
          /\ UNCHANGED <<loc, sent, ret>>
       \/ /\ pc = "get_ack_sda_low"                            \* line 247
          /\ Macro(SDA_LOW(pullup), "get_ack_scl_high")
          /\ UNCHANGED <<loc, sent, ret>>
       \/ /\ pc = "get_ack_sda_high"                           \* line 251
          /\ Macro(SDA_HIGH(pullup), "get_ack_scl_high")
          /\ UNCHANGED <<loc, sent, ret>>
       \/ /\ pc = "get_ack_scl_high"                           \* line 256
          /\ Macro(SCL_HIGH(pullup), "get_ack_stretch")
          /\ UNCHANGED <<loc, sent, ret>>
       \/ /\ pc = "get_ack_stretch"                            \* lines 259-262
          /\ ClockReleased
          /\ pc' = "get_end_scl_low"
          /\ NoBus
          /\ UNCHANGED <<loc, sent, ret>>
       \/ /\ pc = "get_end_scl_low"                            \* line 265
          /\ Macro(SCL_LOW(pullup), "get_end_sda_high")
          /\ UNCHANGED <<loc, sent, ret>>
       \/ /\ pc = "get_end_sda_high"                           \* line 266
          /\ Macro(SDA_HIGH(pullup), "get_return")
          /\ UNCHANGED <<loc, sent, ret>>
       \/ /\ pc = "get_return"                                 \* lines 268-270
          /\ loc' = [loc EXCEPT !.data = loc.received]
          /\ Leave("TWI_None")
          /\ UNCHANGED sent

\* A slave that stretched the clock lets it go.
PeerReleaseClock ==
    /\ peer.scl
    /\ LET p1 == [peer EXCEPT !.scl = FALSE]
       IN  /\ peer' = p1
           /\ wire' = Analyse(wire, Edges(Pin("SCL"), Pin("SDA"),
                                          Level("SCL", TWI_SOFT_PORT, TWI_SOFT_DDR, p1),
                                          Level("SDA", TWI_SOFT_PORT, TWI_SOFT_DDR, p1)))
    /\ UNCHANGED <<oledvars, hwvars, ttyvars, ievars, twi_soft_bus_status, TWI_SOFT_PORT,
                   TWI_SOFT_DDR, pullup, pc, sub, loc, ret, call, script, pulses, sent>>

-----------------------------------------------------------------------------
(* The caller of the transport                                             *)

Invoke(fn, a, b) == [fn |-> fn, a |-> a, b |-> b]

\* data bytes and addresses the free caller passes
SetData == {0, 1, 85, 170, 174, 255}
AddressArgs == {<<OLED_ADDRESS, TWI_Write>>, <<OLED_ADDRESS, TWI_Read>>}

FreeCalls ==
    {Invoke(fn, 0, 0) : fn \in {"init", "disable", "start", "stop"}}
      \cup {Invoke("set", d, 0) : d \in SetData}
      \cup {Invoke("address", x[1], x[2]) : x \in AddressArgs}

\* start(), send_address(0x3C, Write), send_byte(0xAE), stop()
ScriptCommand ==
    << Invoke("start", 0, 0), Invoke("address", OLED_ADDRESS, TWI_Write),
       Invoke("set", 174, 0), Invoke("stop", 0, 0) >>

\* start(), send_address(0x3C, Write), send_byte(0xAE), start()
ScriptRestart ==
    << Invoke("start", 0, 0), Invoke("address", OLED_ADDRESS, TWI_Write),
       Invoke("set", 174, 0), Invoke("start", 0, 0) >>

\* start(), send_address(address, operation) for every 7-bit address and
\* both directions
ScriptsAddress ==
    {[id |-> "address",
      rest |-> << Invoke("start", 0, 0), Invoke("address", address, operation) >>] :
         address \in 0..127, operation \in {TWI_Write, TWI_Read}}

Scripts ==
    {[id |-> "command", rest |-> ScriptCommand],
     [id |-> "restart", rest |-> ScriptRestart]} \cup ScriptsAddress

Enter(c) ==
    /\ pc = "idle"
    /\ call' = c
    /\ pc' = IF c.fn = "set" THEN "set_loop" ELSE IF c.fn = "get" THEN "get_loop" ELSE c.fn
    /\ loc' = [i |-> 0, temp |-> 0, data |-> IF c.fn = "set" THEN c.a ELSE 0,
               received |-> 0, error |-> "TWI_Ack"]
    /\ pulses' = 0
    /\ sent' = <<>>
    /\ sreg_entry' = SREG_I
    /\ UNCHANGED <<oledvars, hwvars, ttyvars, twi_soft_bus_status, TWI_SOFT_PORT, TWI_SOFT_DDR, pullup,
                   sub, ret, peer, wire, SREG_I, block_ie>>

CallFree ==
    /\ script.id = "free"
    /\ \E c \in FreeCalls : Enter(c)
    /\ UNCHANGED script

CallScript ==
    /\ script.id # "free"
    /\ script.rest # <<>>
    /\ Enter(Head(script.rest))
    /\ script' = [script EXCEPT !.rest = Tail(@)]

InitTwi ==
    /\ column_current_position = 0
    /\ page_current_position = 0
    /\ twi_soft_bus_status = 0
    /\ gddram = <<>>
    /\ ssd = [page |-> 0, column |-> 0, phase |-> "idle", pend |-> 0, offset |-> 0]
    /\ bus = <<>>
    /\ op = [name |-> "none"]
    /\ lastpos = <<>>
    /\ nops = 0
    /\ HardwareReset
    /\ TtyReset
    /\ InterruptReset
    /\ TWI_SOFT_PORT = [SCL |-> 0, SDA |-> 0]
    /\ TWI_SOFT_DDR = [SCL |-> 0, SDA |-> 0]
    /\ pullup \in BOOLEAN
    /\ pc = "idle"
    /\ sub = 1
    /\ loc = [i |-> 0, temp |-> 0, data |-> 0, received |-> 0, error |-> "TWI_None"]
    /\ ret = "TWI_None"
    /\ call = Invoke("none", 0, 0)
    /\ script \in Scripts \cup {[id |-> "free", rest |-> <<>>]}
    /\ peer \in {[kind |-> k, scl |-> FALSE, sda |-> FALSE, count |-> 0, active |-> FALSE] :
                    k \in IF script.id = "free" THEN {"ack", "any"} ELSE {"ack"}}
    /\ wire = [rec |-> script.id # "free", n |-> 0, acc |-> 0, log |-> <<>>]
    /\ pulses = 0
    /\ sent = <<>>

NextTwi ==
    \/ CallFree
    \/ CallScript
    \/ Step_twi_soft_init
    \/ Step_twi_soft_disable
    \/ Step_twi_soft_start
    \/ Step_twi_soft_stop
    \/ Step_twi_soft_address
    \/ Step_twi_soft_set
    \/ PeerReleaseClock

SpecTwi == InitTwi /\ [][NextTwi]_vars

-----------------------------------------------------------------------------
(* Properties of the transport on the wire                                 *)

IsPrefix(s, t) == Len(s) <= Len(t) /\ \A k \in 1..Len(s) : s[k] = t[k]

ScriptDone == script.id = "command" /\ script.rest = <<>> /\ pc = "idle"

WireCommand ==
    << <<"START">>, <<"BYTE", 120>>, <<"ACK">>, <<"BYTE", 174>>, <<"ACK">>, <<"STOP">> >>

WireCommandWithControl ==
    << <<"START">>, <<"BYTE", 120>>, <<"ACK">>, <<"BYTE", 0>>, <<"ACK">>,
       <<"BYTE", 174>>, <<"ACK">>, <<"STOP">> >>

\* C8, as stated: after start(), send_address(0x3C, Write), send_byte(0xAE),
\* stop() against an acknowledging slave the wire has carried START, 0x78,
\* ACK, control byte 0x00, ACK, 0xAE, ACK, STOP.
C8_WireWithControlByte == ScriptDone => wire.log = WireCommandWithControl

\* C8, amended: the transport puts on the wire the bytes it is handed and
\* nothing else; the four calls produce START, 0x78, ACK, 0xAE, ACK, STOP,
\* and at every moment the wire has carried a prefix of that sequence.
C8_WireSequence ==
    /\ script.id = "command" => IsPrefix(wire.log, WireCommand)
    /\ ScriptDone => wire.log = WireCommand

C8_Witness == ScriptDone /\ Len(wire.log) = 6 /\ ret = "TWI_None"

DataBits(data) == [k \in 1..CHAR_BIT |-> DataBit(data, k - 1)]

\* C9: when twi_soft_set has clocked the acknowledge slot it returns TWI_Ack
\* if the peer left the data line high in that slot and TWI_None if the
\* peer pulled it low; the call has released the clock exactly nine times
\* (eight data pulses, one acknowledge pulse) and has put each of the eight
\* data bits on the line once, most significant first.
C9_AcknowledgeSlot ==
    [][(pc = "set_return" /\ pc' = "idle") =>
          /\ ret' = IF peer.sda THEN "TWI_None" ELSE "TWI_Ack"
          /\ pulses' = CHAR_BIT + 1
          /\ sent' = DataBits(loc.data)]_vars

C9_Witness ==
    /\ pc = "idle"
    /\ call.fn = "set"
    /\ ret = "TWI_Ack"
    /\ pulses = CHAR_BIT + 1
    /\ ~peer.sda

\* C10: in twi_soft_set, when the check after putting out bit k is passed,
\* the call returns TWI_Arbitration exactly if the bit is 1 and the data
\* line reads low; it then returns at once, having released the clock only
\* for the k bits before and still holding it low, with bit k the last bit
\* put out.  In every other case (a 0 bit among them) the call goes on to
\* release the clock for bit k.
C10_ArbitrationLost ==
    [][(pc = "set_arbitration" /\ pc' # pc) =>
          IF DataBit(loc.data, loc.i) = 1 /\ Pin("SDA") = 0
          THEN /\ pc' = "idle"
               /\ ret' = "TWI_Arbitration"
               /\ pulses' = loc.i
               /\ Len(sent') = loc.i + 1
               /\ DrivenLow("SCL", TWI_SOFT_PORT', TWI_SOFT_DDR')
          ELSE /\ pc' = "set_scl_high"
               /\ ret' = ret]_vars

C10_Witness ==
    /\ pc = "idle"
    /\ call.fn = "set"
    /\ ret = "TWI_Arbitration"
    /\ pulses = 3
    /\ Len(sent) = 4
    /\ sent[2] = 1

\* C11, as stated: twi_soft_set reads the acknowledge bit only when it has
\* released the clock for the ninth pulse and the clock line reads high.
C11_AckSampledClockHigh ==
    [][(pc = "set_ack_sample" /\ pc' # pc) =>
          /\ ~DrivenLow("SCL", TWI_SOFT_PORT, TWI_SOFT_DDR)
          /\ Pin("SCL") = 1]_vars

RestartDone == script.id = "restart" /\ script.rest = <<>> /\ pc = "idle"

\* C12, as stated: start() after start(), send_address and an acknowledged
\* send_byte, without a stop(), puts a second START on the wire.
C12_RepeatedStart ==
    RestartDone =>
        wire.log = << <<"START">>, <<"BYTE", 120>>, <<"ACK">>, <<"BYTE", 174>>,
                      <<"ACK">>, <<"START">> >>

-----------------------------------------------------------------------------
(* Framing of the display layer's transactions                             *)

\* positions of the start() calls in a log of transport calls
Starts(log) == {k \in 1..Len(log) : log[k][1] = "start"}

\* position of the last call of the transaction that starts at k
EndOf(log, k) ==
    LET later == {j \in Starts(log) : j > k} \cup {Len(log) + 1}
    IN  (CHOOSE j \in later : \A i \in later : j <= i) - 1

\* the bytes sent between the address and the stop()
Body(log, k) == SubSeq(log, k + 2, EndOf(log, k) - 1)

Framed(log, k) ==
    /\ EndOf(log, k) >= k + 3
    /\ log[k + 1] = <<"address", OLED_ADDRESS, TWI_Write>>
    /\ log[EndOf(log, k)][1] = "stop"
    /\ \A i \in 1..Len(Body(log, k)) : Body(log, k)[i][1] = "set"

\* one command-mode control byte in front of every command byte
CommandFraming(b) ==
    /\ Len(b) % 2 = 0
    /\ \A i \in 1..Len(b) : i % 2 = 1 => b[i] = <<"set", OLED_CONTROL_COMMAND>>

\* payload bytes of each data transaction of an operation
DataCount(o) ==
    IF o.name = "oled_page_segment" THEN o.column_stop - o.column_start + 1
    ELSE IF o.name = "oled_clear_page_segment" THEN o.column_stop + 1
    ELSE IF o.name \in {"oled_column", "oled_clear_column"} THEN 1
    ELSE OLED_COLUMN_SIZE

\* command bytes of the command transaction that starts at k
CommandCount(o, log, k) ==
    IF o.name = "oled_scroll_vertical" THEN 2
    ELSE IF o.name = "oled_init" /\ \A j \in Starts(log) : k <= j
    THEN Len(oled_init_commands)
    ELSE 3

\* C13, as stated: every transaction of the display layer carries exactly
\* one control byte, right after the address byte, followed by the payload.
C13_OneControlByte ==
    \A k \in Starts(bus) :
        /\ Framed(bus, k)
        /\ LET b == Body(bus, k)
           IN  \/ /\ b[1] = <<"set", OLED_CONTROL_COMMAND>>
                  /\ Len(b) = 1 + CommandCount(op, bus, k)
               \/ /\ b[1] = <<"set", OLED_CONTROL_DATA>>
                  /\ Len(b) = 1 + DataCount(op)

\* C13, amended: a data transaction carries exactly one data-mode control
\* byte (0x40), right after the address byte, followed by all its payload
\* bytes; a command transaction carries one command-mode control byte
\* (0x80) in front of every command byte, the first right after the address
\* byte.
C13_ControlByteFraming ==
    \A k \in Starts(bus) :
        /\ Framed(bus, k)
        /\ LET b == Body(bus, k)
           IN  \/ /\ b[1] = <<"set", OLED_CONTROL_COMMAND>>
                  /\ CommandFraming(b)
                  /\ Len(b) = 2 * CommandCount(op, bus, k)
               \/ /\ b[1] = <<"set", OLED_CONTROL_DATA>>
                  /\ Len(b) = 1 + DataCount(op)

C13_Witness ==
    /\ op.name = "oled_page_segment"
    /\ Cardinality(Starts(bus)) = 2
    /\ Len(Body(bus, 1)) = 6
    /\ Len(Body(bus, LastStart(bus))) = 1 + DataCount(op)

-----------------------------------------------------------------------------
(* Initialisation sequence                                                 *)

\* the command bytes of the first transaction of a log that begins with the
\* transport's init: every second byte after the address
InitStream(log) ==
    [i \in 1..((EndOf(log, 2) - 3) \div 2) |-> log[3 + 2 * i][2]]

\* the opcodes appear in the stream in the order given
InOrder(stream, opcodes) ==
    /\ \A i \in 1..Len(opcodes) : \E n \in 1..Len(stream) : stream[n] = opcodes[i]
    /\ \A i \in 1..(Len(opcodes) - 1) :
          \A n1, n2 \in 1..Len(stream) :
              (stream[n1] = opcodes[i] /\ stream[n2] = opcodes[i + 1]) => n1 < n2

\* transport init, one transaction closed by stop, display-on last, then
\* nothing but the clear: cursor commands and eight pages of zeros
InitThenClear(log) ==
    /\ log[1] = <<"init">>
    /\ log[2] = <<"start">>
    /\ Framed(log, 2)
    /\ CommandFraming(Body(log, 2))
    /\ InitStream(log)[Len(InitStream(log))] = 175
    /\ \A k \in Starts(log) : k > 2 =>
          LET b == Body(log, k)
          IN  \/ /\ b[1] = <<"set", OLED_CONTROL_DATA>>
                 /\ \A i \in 2..Len(b) : b[i] = <<"set", 0>>
              \/ /\ b[1] = <<"set", OLED_CONTROL_COMMAND>>
                 /\ Len(b) = 6
                 /\ b[2][2] \in 176..183
                 /\ b[4][2] \in 0..15
                 /\ b[6][2] \in 16..31
    /\ Cardinality({k \in Starts(log) : Body(log, k)[1] = <<"set", OLED_CONTROL_DATA>>})
           = OLED_PAGE_SIZE

\* C14, as stated: oled_init does transport init, one transaction with the
\* configuration commands in the order multiplex ratio (0xA8), display
\* offset (0xD3), clock divider (0xD5), charge pump (0x8D), addressing mode
\* (0x20), segment/COM remap (0xA1, 0xC8), contrast (0x81), display-on
\* (0xAF), stop, and then the clear.
C14_InitOrderStated ==
    op.name = "oled_init" =>
        /\ InitThenClear(bus)
        /\ InOrder(InitStream(bus), <<168, 211, 213, 141, 32, 161, 200, 129, 175>>)

\* C14, amended: oled_init does transport init, one transaction that sends
\* the bytes of oled_init_commands in their order, which is multiplex ratio,
\* display offset, segment/COM remap, contrast, clock divider, addressing
\* mode, charge pump, display-on, then stop, and then the clear; display-on
\* is the last command of the transaction and nothing but the clear follows.
C14_InitOrder ==
    op.name = "oled_init" =>
        /\ InitThenClear(bus)
        /\ InitStream(bus) = oled_init_commands
        /\ InOrder(InitStream(bus), <<168, 211, 161, 200, 129, 213, 32, 141, 175>>)

C14_Witness ==
    /\ op.name = "oled_init"
    /\ Len(InitStream(bus)) = 21
    /\ Cardinality(Starts(bus)) = 18
    /\ \A p \in 0..7 : gddram[p][5] = 0

-----------------------------------------------------------------------------
(* oled_position over all its arguments                                    *)

\* every column and page in range, and the first values out of range
AllPositions == (0..OLED_COLUMN_SIZE) \X (0..OLED_PAGE_SIZE)

InitPosition ==
    /\ column_current_position = 0
    /\ page_current_position = 0
    /\ twi_soft_bus_status = 0
    /\ gddram = [p \in 0..(OLED_PAGE_SIZE - 1) |-> [c \in 0..(OLED_COLUMN_SIZE - 1) |-> 255]]
    /\ ssd = [page |-> 0, column |-> 0, phase |-> "idle", pend |-> 0, offset |-> 0]
    /\ bus = <<>>
    /\ op \in {[name |-> "argument", column |-> a[1], page |-> a[2]] : a \in AllPositions}
    /\ lastpos = <<>>
    /\ nops = 0
    /\ HardwareReset
    /\ TtyReset
    /\ InterruptReset
    /\ TWI_SOFT_PORT = [SCL |-> 0, SDA |-> 0]
    /\ TWI_SOFT_DDR = [SCL |-> 0, SDA |-> 0]
    /\ pullup = FALSE
    /\ pc = "idle"
    /\ sub = 1
    /\ loc = [i |-> 0, temp |-> 0, data |-> 0, received |-> 0, error |-> "TWI_None"]
    /\ ret = "TWI_None"
    /\ call = [fn |-> "none", a |-> 0, b |-> 0]
    /\ script = [id |-> "none", rest |-> <<>>]
    /\ peer = [kind |-> "ack", scl |-> FALSE, sda |-> FALSE, count |-> 0, active |-> FALSE]
    /\ wire = [rec |-> FALSE, n |-> 0, acc |-> 0, log |-> <<>>]
    /\ pulses = 0
    /\ sent = <<>>

Call_oled_position_argument ==
    /\ op.name = "argument"
    /\ Return(oled_position(Machine, op.column, op.page),
              [name |-> "oled_position", column |-> op.column, page |-> op.page])

NextPosition == Call_oled_position_argument

SpecPosition == InitPosition /\ [][NextPosition]_vars

\* C15: for every column < 128 and page < 8, oled_position sends in one
\* start..stop write transaction exactly the commands 0xB0|page,
\* 0x00|(column & 0x0F), 0x10|(column >> 4), in that order; page = cmd1 & 7
\* and column = ((cmd3 & 0x0F) << 4) | (cmd2 & 0x0F) give the arguments
\* back, the controller points at (column, page) and so does the Cursor.
C15_PositionCommands ==
    (op.name = "oled_position" /\ op.column < OLED_COLUMN_SIZE /\ op.page < OLED_PAGE_SIZE) =>
        /\ Starts(bus) = {1}
        /\ Framed(bus, 1)
        /\ EndOf(bus, 1) = Len(bus)
        /\ CommandFraming(Body(bus, 1))
        /\ Len(Body(bus, 1)) = 6
        /\ LET cmd1 == Body(bus, 1)[2][2]
               cmd2 == Body(bus, 1)[4][2]
               cmd3 == Body(bus, 1)[6][2]
           IN  /\ cmd1 = 176 + op.page
               /\ cmd2 = op.column % 16
               /\ cmd3 = 16 + (op.column \div 16)
               /\ BitAnd(cmd1, 7) = op.page
               /\ BitOr(BitAnd(cmd3, 15) * 16, BitAnd(cmd2, 15)) = op.column
        /\ ssd.page = op.page
        /\ ssd.column = op.column
        /\ Cursor = <<op.column, op.page>>

C15_Witness ==
    /\ op.name = "oled_position"
    /\ op.column = 93
    /\ op.page = 6
    /\ Len(bus) = 9
    /\ Cursor = <<93, 6>>

-----------------------------------------------------------------------------
(* Line discipline of the software transport                               *)

Held(l) == DrivenLow(l, TWI_SOFT_PORT, TWI_SOFT_DDR)

\* C16: neither SCL nor SDA is ever an output driving 1: in every state,
\* between the two register writes of a line macro too and with or without
\* the pull-ups, a line is an output driving 0 or an input.
C16_OpenDrain ==
    \A l \in {"SCL", "SDA"} : ~(TWI_SOFT_DDR[l] = 1 /\ TWI_SOFT_PORT[l] = 1)

C16_Witness ==
    /\ pullup
    /\ ret = "TWI_SOFT_STATUS_BUS_INIT_COMPLETE"
    /\ pc = "set_scl_low"
    /\ sub = 2
    /\ TWI_SOFT_DDR = [SCL |-> 0, SDA |-> 0]
    /\ TWI_SOFT_PORT = [SCL |-> 0, SDA |-> 1]

\* C17: twi_soft_stop drives the clock low, then the data line low, then
\* releases the clock and only then the data line, so that the data line
\* rises with the clock released (a STOP edge on the wire unless another
\* device holds a line); when it returns both lines are released and the
\* transmit flag is clear, whatever the lines were when it was called.
C17_StopSequence ==
    [][/\ (pc = "stop" /\ pc' = "stop_sda_low") => Held("SCL")'
       /\ (pc = "stop_sda_low" /\ pc' = "stop_scl_high") => (Held("SCL") /\ Held("SDA"))'
       /\ (pc = "stop_scl_high" /\ pc' = "stop_sda_high") => (~Held("SCL") /\ Held("SDA"))'
       /\ (pc = "stop_sda_high" /\ sub = 1 /\ sub' = 2) =>
             /\ ~Held("SCL") /\ Held("SDA") /\ ~Held("SDA")' /\ ~Held("SCL")'
             /\ (~peer.sda /\ ~peer.scl) =>
                   Edges(Pin("SCL"), Pin("SDA"), Pin("SCL")', Pin("SDA")').stop
       /\ (pc = "stop_status" /\ pc' = "idle") =>
             /\ TWI_SOFT_DDR' = [SCL |-> 0, SDA |-> 0]
             /\ BitAnd(twi_soft_bus_status', TWI_SOFT_STATUS_TRANSMIT) = 0]_vars

C17_Witness ==
    /\ pc = "idle"
    /\ call.fn = "stop"
    /\ ret = "TWI_Arbitration"
    /\ twi_soft_bus_status = 0
    /\ Pin("SCL") = 1
    /\ Pin("SDA") = 1

\* C18: twi_soft_init never turns a line it did not hold into a line driven
\* low, has released both lines when it looks at them, and returns
\* TWI_SOFT_STATUS_BUS_ERROR (0xFF) exactly if another device holds SCL or
\* SDA low at that moment, TWI_SOFT_STATUS_BUS_INIT_COMPLETE (0x00) if not.
C18_InitBusCheck ==
    [][/\ pc \in {"init", "init_scl_high", "init_sda_high", "init_check"} =>
             \A l \in {"SCL", "SDA"} : Held(l)' => Held(l)
       /\ (pc = "init_check" /\ pc' = "idle") =>
             /\ ~Held("SCL") /\ ~Held("SDA")
             /\ ret' = IF peer.scl \/ peer.sda THEN "TWI_SOFT_STATUS_BUS_ERROR"
                       ELSE "TWI_SOFT_STATUS_BUS_INIT_COMPLETE"]_vars

C18_Witness ==
    /\ pc = "idle"
    /\ call.fn = "init"
    /\ ret = "TWI_SOFT_STATUS_BUS_ERROR"
    /\ peer.sda
    /\ ~peer.scl

\* the eight bits of a byte, most significant first
BitsOf(v) == [k \in 1..CHAR_BIT |-> (v \div (2 ^ (CHAR_BIT - k))) % 2]

\* C19: twi_soft_address(a, d) hands the byte 2*a + d to twi_soft_set; when
\* the call returns from the acknowledge slot it has put the bits of
\* 2*a + d on the data line most significant first, the wire has carried
\* that byte, and the status returned is the one twi_soft_set computes for
\* it (TWI_None if the peer pulls the data line low in the slot, TWI_Ack
\* if not).
C19_AddressByte ==
    [][/\ (pc = "address" /\ pc' = "set_loop") => loc'.data = 2 * call.a + call.b
       /\ (call.fn = "address" /\ pc = "set_return" /\ pc' = "idle") =>
             /\ sent' = BitsOf(2 * call.a + call.b)
             /\ ret' = loc.error
             /\ ret' = IF peer.sda THEN "TWI_None" ELSE "TWI_Ack"
             /\ wire.rec => wire'.log[Len(wire'.log) - 1] = <<"BYTE", 2 * call.a + call.b>>]_vars

C19_Witness ==
    /\ script.id = "address"
    /\ script.rest = <<>>
    /\ pc = "idle"
    /\ call = Invoke("address", 127, TWI_Read)
    /\ wire.log = << <<"START">>, <<"BYTE", 255>>, <<"ACK">> >>

-----------------------------------------------------------------------------
(* Reception                                                               *)

\* start(), send_address(0x3C, Read), receive_byte(Ack), receive_byte(Nack),
\* stop()
ScriptReceive ==
    << Invoke("start", 0, 0), Invoke("address", OLED_ADDRESS, TWI_Read),
       Invoke("get", TWI_ACK, 0), Invoke("get", TWI_NACK, 0), Invoke("stop", 0, 0) >>

\* the master reads from a peer that is free in what it puts on the lines
InitGet ==
    /\ column_current_position = 0
    /\ page_current_position = 0
    /\ twi_soft_bus_status = 0
    /\ gddram = <<>>
    /\ ssd = [page |-> 0, column |-> 0, phase |-> "idle", pend |-> 0, offset |-> 0]
    /\ bus = <<>>
    /\ op = [name |-> "none"]
    /\ lastpos = <<>>
    /\ nops = 0
    /\ HardwareReset
    /\ TtyReset
    /\ InterruptReset
    /\ TWI_SOFT_PORT = [SCL |-> 0, SDA |-> 0]
    /\ TWI_SOFT_DDR = [SCL |-> 0, SDA |-> 0]
    /\ pullup \in BOOLEAN
    /\ pc = "idle"
    /\ sub = 1
    /\ loc = [i |-> 0, temp |-> 0, data |-> 0, received |-> 0, error |-> "TWI_None"]
    /\ ret = "TWI_None"
    /\ call = Invoke("none", 0, 0)
    /\ script = [id |-> "receive", rest |-> ScriptReceive]
    /\ peer = [kind |-> "any", scl |-> FALSE, sda |-> FALSE, count |-> 0, active |-> FALSE]
    /\ wire = [rec |-> FALSE, n |-> 0, acc |-> 0, log |-> <<>>]
    /\ pulses = 0
    /\ sent = <<>>

NextGet ==
    \/ CallScript
    \/ Step_twi_soft_start
    \/ Step_twi_soft_address
    \/ Step_twi_soft_set
    \/ Step_twi_soft_get
    \/ Step_twi_soft_stop
    \/ PeerReleaseClock

SpecGet == InitGet /\ [][NextGet]_vars

RECURSIVE BinaryValue(_)
BinaryValue(bits) ==
    IF bits = <<>> THEN 0
    ELSE 2 * BinaryValue(SubSeq(bits, 1, Len(bits) - 1)) + bits[Len(bits)]

\* C20: twi_soft_get, when the master does not itself hold the data line,
\* assembles the eight bits the peer presents, one per clock pulse and most
\* significant first, and stores that byte; for the ninth pulse it holds
\* the data line low exactly if acknowledge is TWI_ACK; it returns TWI_None
\* in every case, with the clock held low and the data line released,
\* after nine clock pulses.
C20_ReceiveByte ==
    [][/\ (pc = "get_read" /\ pc' # pc /\ ~Held("SDA")) =>
             loc'.received = BinaryValue(sent') % 256
       /\ (pc = "get_loop" /\ pc' = "get_ack_scl_low" /\ ~Held("SDA")) =>
             (Len(sent) = CHAR_BIT /\ loc.received = BinaryValue(sent))
       /\ (pc = "get_ack_scl_high" /\ pc' # pc) =>
             (Held("SDA")' <=> call.a = TWI_ACK)
       /\ (pc = "get_return" /\ pc' = "idle") =>
             /\ loc'.data = loc.received
             /\ ret' = "TWI_None"
             /\ pulses' = CHAR_BIT + 1
             /\ Held("SCL")'
             /\ ~Held("SDA")']_vars

C20_Witness ==
    /\ pc = "idle"
    /\ call = Invoke("get", TWI_NACK, 0)
    /\ sent = <<1, 0, 1, 0, 0, 1, 0, 1>>
    /\ loc.data = 165
    /\ peer.sda
    /\ ret = "TWI_None"

-----------------------------------------------------------------------------
(* Clock stretching                                                        *)

\* the waits on the clock line: after every data bit of twi_soft_set, after
\* every data pulse and after the acknowledge pulse of twi_soft_get
StretchWaits == {"set_stretch", "get_stretch", "get_ack_stretch"}

\* C21: a call leaves a clock-stretching wait only when the clock line
\* reads high; as long as another device holds the clock low the call stays
\* where it is, with its registers, locals and return value untouched: it
\* neither goes on to the next bit nor returns, and there is no timeout.
C21_NoStretchTimeout ==
    [][(pc \in StretchWaits) =>
          /\ pc' # pc => (~peer.scl /\ Pin("SCL") = 1)
          /\ peer.scl =>
                /\ pc' \in StretchWaits
                /\ UNCHANGED <<pc, loc, ret, sent, pulses, TWI_SOFT_PORT, TWI_SOFT_DDR>>]_vars

C21_Witness ==
    /\ pc = "get_ack_stretch"
    /\ peer.scl
    /\ ~Held("SCL")
    /\ Pin("SCL") = 0
    /\ loc.received = 165

-----------------------------------------------------------------------------
(* Rejected and accepted arguments of the display layer                    *)

\* C22: oled_scroll_vertical(scroll) with scroll >= 64 makes no transport
\* call; with scroll < 64 it makes exactly one write transaction with the
\* command 0xD3 and the value scroll, each behind its control byte, and the
\* controller takes the offset; the Cursor and the display memory are
\* unchanged in both cases.
C22_ScrollVertical ==
    [][op'.name = "oled_scroll_vertical" =>
          /\ Cursor' = Cursor
          /\ gddram' = gddram
          /\ IF op'.scroll >= 64
             THEN bus' = <<>> /\ ssd' = ssd
             ELSE /\ bus' = << <<"start">>, <<"address", 60, 0>>,
                               <<"set", 128>>, <<"set", 211>>,
                               <<"set", 128>>, <<"set", op'.scroll>>, <<"stop">> >>
                  /\ ssd'.offset = op'.scroll]_vars

C22_Witness ==
    /\ op.name = "oled_scroll_vertical"
    /\ op.scroll = 63
    /\ ssd.offset = 63
    /\ Len(bus) = 7

\* C23, as stated: oled_clear_column(column, page) with column >= 128 or
\* page >= 8 makes no transport call, writes nothing into the display
\* memory and leaves the Cursor unchanged.
C23_ClearColumnRejected ==
    [][(op'.name = "oled_clear_column"
            /\ (op'.column >= OLED_COLUMN_SIZE \/ op'.page >= OLED_PAGE_SIZE)) =>
          /\ bus' = <<>>
          /\ gddram' = gddram
          /\ Cursor' = Cursor]_vars

\* C24: oled_disable calls twi_soft_disable and nothing else: no start, no
\* byte and no stop; display memory, controller and Cursor are unchanged,
\* and afterwards both lines are inputs and not driven.
C24_DisableSilent ==
    [][op'.name = "oled_disable" =>
          /\ bus' = << <<"disable">> >>
          /\ gddram' = gddram
          /\ ssd' = ssd
          /\ Cursor' = Cursor
          /\ TWI_SOFT_DDR' = [SCL |-> 0, SDA |-> 0]
          /\ \A l \in {"SCL", "SDA"} : ~DrivenLow(l, TWI_SOFT_PORT', TWI_SOFT_DDR')]_vars

C24_Witness ==
    /\ op.name = "oled_disable"
    /\ bus = << <<"disable">> >>
    /\ gddram[3][10] = 1
    /\ Cursor = <<10, 3>>
    /\ TWI_SOFT_DDR = [SCL |-> 0, SDA |-> 0]

-----------------------------------------------------------------------------
(* The hardware TWI master (lib/hal/avr/twi/twi.c)                         *)
(*                                                                         *)
(* SpecHw: every register access of twi.c is one step; the peripheral      *)
(* runs beside the program, finishes the job the last write to TWCR gave   *)
(* it and reports the bus outcome in TWSR.                                 *)

\* bit numbers of TWCR
TWINT == 7
TWEA == 6
TWSTA == 5
TWSTO == 4
TWEN == 2

TWI_STATUS_START == 8
TWI_STATUS_REPEATED_START == 16
TWI_STATUS_ADDRESS_WRITE_NACK == 24
TWI_STATUS_ADDRESS_WRITE_ACK == 32
TWI_STATUS_DATA_WRITE_NACK == 40
TWI_STATUS_DATA_WRITE_ACK == 48
TWI_STATUS_ARBITRATION_LOST == 56
TWI_STATUS_ADDRESS_READ_ACK == 64
TWI_STATUS_ADDRESS_READ_NACK == 72
TWI_STATUS_DATA_READ_ACK == 80
TWI_STATUS_DATA_READ_NACK == 88

\* (1<<n) set in the register value x
BitSet(x, n) == BitAnd(x, 2 ^ n) # 0

\* The job a write of value to TWCR gives the peripheral: a written TWINT
\* clears the flag and lets the enabled peripheral go on.
JobOf(value) ==
    IF ~(BitSet(value, TWINT) /\ BitSet(value, TWEN)) THEN hw.job
    ELSE IF BitSet(value, TWSTO) THEN "stop"
    ELSE IF BitSet(value, TWSTA) THEN "start"
    ELSE IF hw.mode \in {"started", "MT"} THEN "send"
    ELSE IF hw.mode = "MR" THEN "receive"
    ELSE "none"

\* TWCR = value: the flag TWINT is cleared by writing 1 to it and is kept
\* by writing 0; the other bits are stored.
WriteTWCR(value) ==
    /\ TWCR' = IF BitSet(value, TWINT) THEN value - 2 ^ TWINT
               ELSE value + BitAnd(TWCR, 2 ^ TWINT)
    /\ hw' = [hw EXCEPT !.job = JobOf(value)]

\* The status codes the peripheral can report after shifting out TWDR.
SendOutcomes ==
    IF hw.mode = "MT"
    THEN {TWI_STATUS_DATA_WRITE_NACK, TWI_STATUS_DATA_WRITE_ACK,
          TWI_STATUS_ARBITRATION_LOST}
    ELSE IF TWDR % 2 = TWI_Write
    THEN {TWI_STATUS_ADDRESS_WRITE_NACK, TWI_STATUS_ADDRESS_WRITE_ACK,
          TWI_STATUS_ARBITRATION_LOST}
    ELSE {TWI_STATUS_ADDRESS_READ_ACK, TWI_STATUS_ADDRESS_READ_NACK,
          TWI_STATUS_ARBITRATION_LOST}

ModeAfter(status) ==
    IF status = TWI_STATUS_ARBITRATION_LOST THEN "idle"
    ELSE IF hw.mode = "started" THEN (IF TWDR % 2 = TWI_Write THEN "MT" ELSE "MR")
    ELSE hw.mode

\* bytes a slave sends
ReceivedData == {0, 165}

HwFrame == UNCHANGED <<oledvars, ttyvars, ievars, twi_soft_bus_status, TWI_SOFT_PORT,
                       TWI_SOFT_DDR, pullup, sub, script, peer, wire, pulses, sent>>

\* The peripheral finishes its job.  Start, byte sent and byte received set
\* TWINT and a status; an executed stop clears TWSTO and sets no flag.
Peripheral ==
    /\ hw.job # "none"
    /\ HwFrame
    /\ UNCHANGED <<pc, loc, ret, call>>
    /\ \/ /\ hw.job = "start"
          /\ TWSR' = IF hw.mode = "idle" THEN TWI_STATUS_START
                     ELSE TWI_STATUS_REPEATED_START
          /\ TWCR' = TWCR + 2 ^ TWINT
          /\ hw' = [mode |-> "started", job |-> "none"]
          /\ UNCHANGED TWDR
       \/ /\ hw.job = "send"
          /\ \E status \in SendOutcomes :
                /\ TWSR' = status
                /\ hw' = [mode |-> ModeAfter(status), job |-> "none"]
          /\ TWCR' = TWCR + 2 ^ TWINT
          /\ UNCHANGED TWDR
       \/ /\ hw.job = "receive"
          /\ TWDR' \in ReceivedData
          /\ \E status \in {IF BitSet(TWCR, TWEA) THEN TWI_STATUS_DATA_READ_ACK
                            ELSE TWI_STATUS_DATA_READ_NACK,
                            TWI_STATUS_ARBITRATION_LOST} :
                /\ TWSR' = status
                /\ hw' = [mode |-> ModeAfter(status), job |-> "none"]
          /\ TWCR' = TWCR + 2 ^ TWINT
       \/ /\ hw.job = "stop"
          /\ TWCR' = ClearBits(TWCR, 2 ^ TWSTO)
          /\ TWSR' = 248
          /\ hw' = [mode |-> "idle", job |-> "none"]
          /\ UNCHANGED TWDR

HwStep == HwFrame /\ UNCHANGED call

HwLeave(value) == pc' = "idle" /\ ret' = value

Step_twi_start ==
    /\ HwStep
    /\ UNCHANGED <<TWSR, TWDR, loc>>
    /\ \/ /\ pc = "twi_start"
          /\ WriteTWCR(2 ^ TWINT + 2 ^ TWSTA + 2 ^ TWEN)
          /\ pc' = "twi_start_wait"
          /\ UNCHANGED ret
       \/ /\ pc = "twi_start_wait"
          /\ BitSet(TWCR, TWINT)
          /\ HwLeave(IF BitAnd(TWSR, 248) = TWI_STATUS_START
                        \/ BitAnd(TWSR, 248) = TWI_STATUS_REPEATED_START
                     THEN "TWI_None" ELSE "TWI_Start")
          /\ UNCHANGED <<TWCR, hw>>

Step_twi_stop ==
    /\ HwStep
    /\ UNCHANGED <<TWSR, TWDR, loc>>
    /\ \/ /\ pc = "twi_stop"
          /\ WriteTWCR(2 ^ TWINT + 2 ^ TWEN + 2 ^ TWSTO)
          /\ pc' = "twi_stop_wait"
          /\ UNCHANGED ret
       \/ /\ pc = "twi_stop_wait"
          /\ BitSet(TWCR, TWSTO)
          /\ pc' = "idle"
          /\ UNCHANGED <<TWCR, hw, ret>>

\* twi_set (twi_address enters it with the address byte as data)
Step_twi_set ==
    /\ HwStep
    /\ UNCHANGED <<TWSR, loc>>
    /\ \/ /\ pc = "twi_set"
          /\ TWDR' = loc.data
          /\ pc' = "twi_set_go"
          /\ UNCHANGED <<TWCR, hw, ret>>
       \/ /\ pc = "twi_set_go"
          /\ WriteTWCR(2 ^ TWINT + 2 ^ TWEN)
          /\ pc' = "twi_set_wait"
          /\ UNCHANGED <<TWDR, ret>>
       \/ /\ pc = "twi_set_wait"
          /\ BitSet(TWCR, TWINT)
          /\ HwLeave(CASE BitAnd(TWSR, 248) = TWI_STATUS_DATA_WRITE_ACK -> "TWI_None"
                       [] BitAnd(TWSR, 248) = TWI_STATUS_DATA_WRITE_NACK -> "TWI_Ack"
                       [] BitAnd(TWSR, 248) = TWI_STATUS_ARBITRATION_LOST -> "TWI_Arbitration"
                       [] OTHER -> "TWI_General")
          /\ UNCHANGED <<TWCR, TWDR, hw>>

Step_twi_get ==
    /\ HwStep
    /\ UNCHANGED <<TWSR, TWDR>>
    /\ \/ /\ pc = "twi_get"
          /\ WriteTWCR(IF call.a = TWI_ACK THEN 2 ^ TWINT + 2 ^ TWEA + 2 ^ TWEN
                       ELSE 2 ^ TWINT + 2 ^ TWEN)
          /\ pc' = "twi_get_wait"
          /\ UNCHANGED <<loc, ret>>
       \/ /\ pc = "twi_get_wait"
          /\ BitSet(TWCR, TWINT)
          /\ loc' = [loc EXCEPT !.data = TWDR]
          /\ HwLeave(IF BitAnd(TWSR, 248) = TWI_STATUS_ARBITRATION_LOST
                     THEN "TWI_Arbitration"
                     ELSE IF call.a = TWI_ACK /\ BitAnd(TWSR, 248) = TWI_STATUS_DATA_READ_ACK
                     THEN "TWI_None"
                     ELSE IF call.a = TWI_NACK /\ BitAnd(TWSR, 248) = TWI_STATUS_DATA_READ_NACK
                     THEN "TWI_None"
                     ELSE "TWI_Ack")
          /\ UNCHANGED <<TWCR, hw>>

HwCalls ==
    {Invoke(fn, 0, 0) : fn \in {"twi_start", "twi_stop"}}
      \cup {Invoke("twi_set", d, 0) : d \in {0, 174}}
      \cup {Invoke("twi_address", a[1], a[2]) : a \in AddressArgs}
      \cup {Invoke("twi_get", k, 0) : k \in {TWI_ACK, TWI_NACK}}

\* The program calls a function of twi.c.
CallHw ==
    /\ pc = "idle"
    /\ HwFrame
    /\ UNCHANGED <<TWCR, TWSR, TWDR, hw, ret>>
    /\ \E c \in HwCalls :
          /\ call' = c
          /\ pc' = IF c.fn = "twi_address" THEN "twi_set" ELSE c.fn
          /\ loc' = [loc EXCEPT !.data =
                        CASE c.fn = "twi_set" -> c.a
                          [] c.fn = "twi_address" -> BitOr(c.a * 2, BitAnd(1, c.b)) % 256
                          [] OTHER -> @]

InitHw ==
    /\ column_current_position = 0
    /\ page_current_position = 0
    /\ twi_soft_bus_status = 0
    /\ gddram = <<>>
    /\ ssd = [page |-> 0, column |-> 0, phase |-> "idle", pend |-> 0, offset |-> 0]
    /\ bus = <<>>
    /\ op = [name |-> "none"]
    /\ lastpos = <<>>
    /\ nops = 0
    /\ HardwareReset
    /\ TtyReset
    /\ InterruptReset
    /\ TWI_SOFT_PORT = [SCL |-> 0, SDA |-> 0]
    /\ TWI_SOFT_DDR = [SCL |-> 0, SDA |-> 0]
    /\ pullup = FALSE
    /\ pc = "idle"
    /\ sub = 1
    /\ loc = [i |-> 0, temp |-> 0, data |-> 0, received |-> 0, error |-> "TWI_None"]
    /\ ret = "TWI_None"
    /\ call = Invoke("none", 0, 0)
    /\ script = [id |-> "free", rest |-> <<>>]
    /\ peer = [kind |-> "ack", scl |-> FALSE, sda |-> FALSE, count |-> 0, active |-> FALSE]
    /\ wire = [rec |-> FALSE, n |-> 0, acc |-> 0, log |-> <<>>]
    /\ pulses = 0
    /\ sent = <<>>

NextHw ==
    \/ CallHw
    \/ Step_twi_start
    \/ Step_twi_stop
    \/ Step_twi_set
    \/ Step_twi_get
    \/ Peripheral

SpecHw == InitHw /\ [][NextHw]_vars

\* C25: twi_address returns TWI_None when the status after the transfer is
\* an address-acknowledged status (SLA+W or SLA+R acknowledged) and TWI_Ack
\* when it is an address-not-acknowledged status.
C25_AddressStatus ==
    [][(call.fn = "twi_address" /\ pc = "twi_set_wait" /\ pc' = "idle") =>
          /\ BitAnd(TWSR, 248) \in {TWI_STATUS_ADDRESS_WRITE_ACK, TWI_STATUS_ADDRESS_READ_ACK}
                => ret' = "TWI_None"
          /\ BitAnd(TWSR, 248) \in {TWI_STATUS_ADDRESS_WRITE_NACK, TWI_STATUS_ADDRESS_READ_NACK}
                => ret' = "TWI_Ack"]_vars

\* C26: twi_stop returns only after the peripheral has executed the stop
\* condition, that is with TWSTO cleared by the hardware.
C26_StopExecuted ==
    [][(pc = "twi_stop_wait" /\ pc' = "idle") =>
          (~BitSet(TWCR, TWSTO) /\ hw.job # "stop")]_vars

-----------------------------------------------------------------------------
(* The text layer (lib/oled/tty/tty.c), fixed-width build with autoscroll  *)
(*                                                                         *)
(* SpecTty: every tty_* function is one action on the display layer above. *)

FONT_WIDTH == 5
FONT_ASCII_START_CHAR == 32
FONT_ASCII_END_CHAR == 126
TTY_WIDTH == OLED_COLUMN_SIZE \div FONT_WIDTH
TTY_HEIGHT == OLED_ROW_SIZE \div OLED_PAGE_SIZE

\* The glyph table: FONT_WIDTH bytes for each character of the font range.
Font ==
    [i \in 0..((FONT_ASCII_END_CHAR - FONT_ASCII_START_CHAR + 1) * FONT_WIDTH - 1)
        |-> (i % 255) + 1]

\* Where in the table font_getchararray may point for the character: the
\* glyph of a character of the font range, some glyph for any other.
font_getchararray(character) ==
    IF character >= FONT_ASCII_START_CHAR /\ character <= FONT_ASCII_END_CHAR
    THEN {(character - FONT_ASCII_START_CHAR) * FONT_WIDTH}
    ELSE {0, (63 - FONT_ASCII_START_CHAR) * FONT_WIDTH}

\* The text layer's statics together with the machine below it.
Tty ==
    [m |-> Machine, character |-> tty_character, line |-> tty_line,
     scroll |-> tty_scroll]

tty_init(t) ==
    LET m1 == oled_init(t.m)
        m2 == IF Returned(m1) THEN oled_clear(m1) ELSE m1
    IN  IF Returned(m2)
        THEN [m |-> m2, character |-> 0, line |-> 0, scroll |-> 0]
        ELSE t

tty_clear_line(t, line) ==
    IF line >= TTY_HEIGHT
    THEN t
    ELSE [t EXCEPT !.m = oled_clear_page(@, line)]

\* tty_newline that scrolls to the line it starts, not to the one after it
tty_newline_current(t) ==
    LET t1 == [t EXCEPT !.character = 0, !.line = (@ + 1) % 256]
        t2 == IF t1.line >= 8 THEN [t1 EXCEPT !.line = 0, !.scroll = 1] ELSE t1
        t3 == IF t2.scroll # 0
              THEN [t2 EXCEPT !.m = oled_scroll_vertical(@, (TTY_HEIGHT * t2.line) % 256)]
              ELSE t2
    IN  IF Returned(t3.m) THEN tty_clear_line(t3, t3.line) ELSE t3

tty_newline(t) ==
    LET t1 == [t EXCEPT !.character = 0, !.line = (@ + 1) % 256]
        t2 == IF t1.line >= 8 THEN [t1 EXCEPT !.line = 0, !.scroll = 1] ELSE t1
        temp == IF t2.line + 1 >= 8 THEN 0 ELSE t2.line + 1
        t3 == IF t2.scroll # 0
              THEN [t2 EXCEPT !.m = oled_scroll_vertical(@, (TTY_HEIGHT * temp) % 256)]
              ELSE t2
    IN  IF Returned(t3.m) THEN tty_clear_line(t3, t3.line) ELSE t3

\* tty_cursor without its range check
tty_cursor_unchecked(t, column, line) ==
    [t EXCEPT !.character = column, !.line = line,
              !.m = oled_position(@, (column * FONT_WIDTH) % 256, line)]

tty_cursor(t, column, line) ==
    IF column >= TTY_WIDTH \/ line >= TTY_HEIGHT
    THEN t
    ELSE [t EXCEPT !.character = column, !.line = line,
                   !.m = oled_position(@, (column * FONT_WIDTH) % 256, line)]

\* temp is where font_getchararray(character) points in the glyph table.
tty_putchar(t, character, temp) ==
    IF character # 10 /\ character < FONT_ASCII_START_CHAR
                      /\ character > FONT_ASCII_END_CHAR
    THEN t
    ELSE IF character = 10
    THEN tty_newline(t)
    ELSE LET t1 == [t EXCEPT !.m = oled_page_segment(@, Font, temp,
                                       (t.character * FONT_WIDTH) % 256,
                                       ((t.character + 1) * FONT_WIDTH) % 256,
                                       t.line)]
             t2 == [t1 EXCEPT !.character = (@ + 1) % 256]
         IN  IF Returned(t1.m)
             THEN (IF t2.character >= TTY_WIDTH THEN tty_newline(t2) ELSE t2)
             ELSE t1

\* while(*string != '\0') tty_putchar(*(string++));
RECURSIVE tty_string(_, _)
tty_string(t, string) ==
    IF string = <<>> THEN t
    ELSE LET character == Head(string)
             t1 == tty_putchar(t, character,
                               CHOOSE temp \in font_getchararray(character) : TRUE)
         IN  IF Returned(t1.m) THEN tty_string(t1, Tail(string)) ELSE t1

\* "Hi" and "A\nB"
TtyStrings == {<<72, 105>>, <<65, 10, 66>>}

\* characters and positions the caller passes
TtyChars == {1, 10, 65, 127}
TtyCursorArgs == {<<24, 7>>, <<3, 2>>, <<25, 0>>, <<0, 8>>}
TtyLineArgs == {2, 8}

TtyReturn(t, o) ==
    /\ nops < MaxTtyOps
    /\ Store(t.m, o)
    /\ tty_character' = t.character
    /\ tty_line' = t.line
    /\ tty_scroll' = t.scroll

Call_tty_init ==
    TtyReturn(tty_init(Tty), [name |-> "tty_init"])

Call_tty_clear_line ==
    \E line \in TtyLineArgs :
        TtyReturn(tty_clear_line(Tty, line), [name |-> "tty_clear_line", line |-> line])

Call_tty_cursor ==
    \E a \in TtyCursorArgs :
        TtyReturn(tty_cursor(Tty, a[1], a[2]),
                  [name |-> "tty_cursor", column |-> a[1], line |-> a[2]])

Call_tty_putchar ==
    \E character \in TtyChars :
        \E temp \in font_getchararray(character) :
            TtyReturn(tty_putchar(Tty, character, temp),
                      [name |-> "tty_putchar", character |-> character])

Call_tty_string ==
    \E string \in TtyStrings :
        TtyReturn(tty_string(Tty, string), [name |-> "tty_string", string |-> string])

NextTty ==
    \/ Call_tty_init
    \/ Call_tty_clear_line
    \/ Call_tty_cursor
    \/ Call_tty_putchar
    \/ Call_tty_string

SpecTty == Init /\ [][NextTty]_vars

\* C27: tty_putchar of a character outside ' '..'~' other than '\n' makes
\* no transport call, writes nothing to the display and leaves tty_character
\* and tty_line as they were.
C27_IgnoredCharacter ==
    [][(op'.name = "tty_putchar"
          /\ op'.character # 10
          /\ (op'.character < FONT_ASCII_START_CHAR \/ op'.character > FONT_ASCII_END_CHAR)) =>
          /\ bus' = <<>>
          /\ gddram' = gddram
          /\ tty_character' = tty_character
          /\ tty_line' = tty_line]_vars

\* transactions of a log that carry a display-offset command first
ScrollFrames(log) ==
    {k \in Starts(log) :
        /\ k + 5 <= Len(log)
        /\ log[k + 2] = <<"set", OLED_CONTROL_COMMAND>>
        /\ log[k + 3] = <<"set", OLED_CMD_SET_DISPLAY_OFFSET>>}

\* the call a performs a newline: '\n', or a character drawn in the last cell
StartsLine(o) ==
    /\ o.name = "tty_putchar"
    /\ (o.character = 10 \/ tty_character + 1 >= TTY_WIDTH)

\* C32: no call of the terminal after tty_init sends a display offset until
\* tty_line has wrapped from 7 to 0; from then on every newline sends the
\* offset 8 * ((tty_line + 1) mod 8) of the line it starts, which makes that
\* line the bottom row, and every newline leaves the line it starts cleared.
C32_Autoscroll ==
    [][LET scrolls == ScrollFrames(bus')
       IN  /\ (op'.name \notin {"tty_init", "tty_string"} /\ ~StartsLine(op')) =>
                 scrolls = {}
           /\ op'.name = "tty_string" =>
                 /\ tty_scroll' = 0 => scrolls = {}
                 /\ scrolls # {} => ssd'.offset = 8 * ((tty_line' + 1) % TTY_HEIGHT)
                 /\ (tty_scroll # 0 /\ \E k \in 1..Len(op'.string) : op'.string[k] = 10) =>
                       scrolls # {}
           /\ (StartsLine(op') /\ tty_scroll = 0 /\ tty_line + 1 < TTY_HEIGHT) =>
                 scrolls = {} /\ tty_scroll' = 0
           /\ (StartsLine(op') /\ (tty_scroll # 0 \/ tty_line + 1 >= TTY_HEIGHT)) =>
                 /\ Cardinality(scrolls) = 1
                 /\ \A k \in scrolls :
                       bus'[k + 5] = <<"set", 8 * ((tty_line' + 1) % TTY_HEIGHT)>>
                 /\ ssd'.offset = 8 * ((tty_line' + 1) % TTY_HEIGHT)
                 /\ (ssd'.offset \div 8 + TTY_HEIGHT - 1) % TTY_HEIGHT = tty_line'
                 /\ tty_scroll' # 0
           /\ StartsLine(op') =>
                 /\ tty_line' = (tty_line + 1) % TTY_HEIGHT
                 /\ tty_character' = 0
                 /\ \A c \in 0..(OLED_COLUMN_SIZE - 1) : gddram'[tty_line'][c] = 0]_vars

\* a newline after the first wrap: the second line is started and scrolled in
C32_Witness ==
    /\ op.name = "tty_putchar"
    /\ op.character = 10
    /\ tty_scroll = 1
    /\ tty_line = 1
    /\ ssd.offset = 16

-----------------------------------------------------------------------------
(* The display layer in front of a peer that does not acknowledge          *)

\* How the bus answers the calls of one run: the controller acknowledges;
\* nobody acknowledges; another master holds SDA low while a byte is clocked
\* out; a line is low when twi_soft_init reads the bus.
PeerResponses == {"ack", "nack", "arbitration", "stuck"}

InitPeer ==
    /\ column_current_position = 0
    /\ page_current_position = 0
    /\ twi_soft_bus_status = 0
    /\ gddram \in InitialRam
    /\ ssd = [page |-> 0, column |-> 0, phase |-> "idle", pend |-> 0, offset |-> 0]
    /\ bus = <<>>
    /\ op = [name |-> "none"]
    /\ lastpos = <<>>
    /\ nops = 0
    /\ HardwareReset
    /\ TtyReset
    /\ InterruptReset
    /\ TWI_SOFT_PORT = [SCL |-> 0, SDA |-> 0]
    /\ TWI_SOFT_DDR = [SCL |-> 0, SDA |-> 0]
    /\ pullup = FALSE
    /\ pc = "idle"
    /\ sub = 1
    /\ loc = [i |-> 0, temp |-> 0, data |-> 0, received |-> 0, error |-> "TWI_None"]
    /\ ret = "TWI_None"
    /\ call = [fn |-> "none", a |-> 0, b |-> 0]
    /\ script = [id |-> "none", rest |-> <<>>]
    /\ peer \in {[kind |-> k, scl |-> FALSE, sda |-> FALSE, count |-> 0, active |-> FALSE] :
                    k \in PeerResponses}
    /\ wire = [rec |-> FALSE, n |-> 0, acc |-> 0, log |-> <<>>]
    /\ pulses = 0
    /\ sent = <<>>

SpecPeer == InitPeer /\ [][Next]_vars

\* the transport call in front of call k of a log ("none" for the first)
Before(log, k) == IF k = 1 THEN "none" ELSE log[k - 1][1]

OutsideFrame == {"none", "stop", "init", "disable"}

\* C28: the transport calls of every display operation, whatever the peer
\* answers, are complete frames start, send_address(0x3C, Write), send_byte*,
\* stop (twi_soft_init and twi_soft_disable are called between frames only),
\* and when the operation has returned both lines are released and the
\* transmit flag is clear.
C28_CompleteFrames ==
    /\ \A k \in 1..Len(bus) :
          CASE bus[k][1] = "start" ->
                  /\ Before(bus, k) \in OutsideFrame
                  /\ k < Len(bus)
                  /\ bus[k + 1] = <<"address", OLED_ADDRESS, TWI_Write>>
            [] bus[k][1] = "address" -> Before(bus, k) = "start"
            [] bus[k][1] = "set" -> Before(bus, k) \in {"address", "set"}
            [] bus[k][1] = "stop" -> Before(bus, k) \in {"address", "set"}
            [] OTHER -> Before(bus, k) \in OutsideFrame
    /\ Before(bus, Len(bus) + 1) \in OutsideFrame
    /\ TWI_SOFT_DDR = Released
    /\ BitAnd(twi_soft_bus_status, TWI_SOFT_STATUS_TRANSMIT) = 0

\* a segment written while another master holds the data line
C28_Witness ==
    /\ peer.kind = "arbitration"
    /\ op.name = "oled_page_segment"
    /\ Len(bus) > 8
    /\ bus[Len(bus)] = <<"stop">>

\* the call o made on machine m
Replay(o, m) ==
    CASE o.name = "oled_init" -> oled_init(m)
      [] o.name = "oled_disable" -> oled_disable(m)
      [] o.name = "oled_position" -> oled_position(m, o.column, o.page)
      [] o.name = "oled_scroll_vertical" -> oled_scroll_vertical(m, o.scroll)
      [] o.name = "oled_frame" -> oled_frame(m, Buffer(o.buffer))
      [] o.name = "oled_page" -> oled_page(m, Buffer(o.buffer), 0, o.page)
      [] o.name = "oled_page_segment" ->
            oled_page_segment(m, Buffer(o.buffer), 0, o.column_start, o.column_stop, o.page)
      [] o.name = "oled_column" -> oled_column(m, o.data, o.column, o.page)
      [] o.name = "oled_clear" -> oled_clear(m)
      [] o.name = "oled_clear_page" -> oled_clear_page(m, o.page)
      [] o.name = "oled_clear_page_segment" ->
            oled_clear_page_segment(m, o.column_start, o.column_stop, o.page)
      [] o.name = "oled_clear_column" -> oled_clear_column(m, o.column, o.page)
      [] OTHER -> m

\* C29: whatever the peer answers (acknowledge, no acknowledge, arbitration
\* lost, bus error at init), an operation makes the transport calls, with the
\* byte arguments, and the Cursor update that the same call with the same
\* arguments makes in front of an acknowledging peer.
C29_StatusBlind ==
    [][LET r == Replay(op', [Machine EXCEPT !.resp = "ack"])
       IN  /\ bus' = r.bus
           /\ column_current_position' = r.column
           /\ page_current_position' = r.page]_vars

\* a whole frame buffer sent to a bus without a device: nothing is stored
C29_Witness ==
    /\ peer.kind = "nack"
    /\ op.name = "oled_frame"
    /\ Len(bus) > OLED_PAGE_SIZE * OLED_COLUMN_SIZE
    /\ gddram \in InitialRam

-----------------------------------------------------------------------------
(* Address pointer and Cursor at the start of a data transaction            *)

\* The position the k-th data transaction of operation o is meant for.
Requested(o, k) ==
    CASE o.name \in {"oled_page_segment", "oled_clear_page_segment"} ->
            <<o.column_start, o.page>>
      [] o.name \in {"oled_column", "oled_clear_column"} -> <<o.column, o.page>>
      [] o.name \in {"oled_page", "oled_clear_page"} -> <<0, o.page>>
      [] OTHER -> <<0, k - 1>>

\* C30: whenever the controller accepts a data-control byte, its column and
\* page pointer equal the Cursor of the layer, and the Cursor is the position
\* the operation that opened the transaction asked for.
C30_CursorSync ==
    [][LET r == Replay(op', Machine)
       IN  \A k \in 1..Len(r.opened) :
              LET q == Requested(op', k)
              IN  r.opened[k] = <<q[1], q[2], q[1], q[2]>>]_vars

\* The same for every operation but an oled_clear_column whose arguments
\* oled_position rejects.
CursorSyncInRange ==
    [][(~(/\ op'.name = "oled_clear_column"
          /\ (op'.column >= OLED_COLUMN_SIZE \/ op'.page >= OLED_PAGE_SIZE))) =>
          LET r == Replay(op', Machine)
          IN  \A k \in 1..Len(r.opened) :
                 LET q == Requested(op', k)
                 IN  r.opened[k] = <<q[1], q[2], q[1], q[2]>>]_vars

\* data transactions are opened: all eight of a frame
DataTransactionsOpened ==
    [][op'.name = "oled_frame" => Len(Replay(op', Machine).opened) = OLED_PAGE_SIZE]_vars

-----------------------------------------------------------------------------
(* The bus status of the software transport                                *)

\* twi_soft_status, twi_soft.c:70-73
twi_soft_status == twi_soft_bus_status

\* C31: the transmit bit of the value twi_soft_status returns is set by
\* twi_soft_start (a repeated start included) and cleared by twi_soft_stop,
\* and no step of another call changes the bus status, whatever that call
\* returns; so the bit is set exactly when a start has been made with no stop
\* after it.
C31_TransmitFlag ==
    [][/\ pc = "idle" => twi_soft_status' = twi_soft_status
       /\ (pc # "idle" /\ call.fn \notin {"start", "stop"}) =>
              twi_soft_status' = twi_soft_status
       /\ (pc # "idle" /\ call.fn = "start") =>
              /\ twi_soft_status' \in
                    {twi_soft_status, BitOr(twi_soft_status, TWI_SOFT_STATUS_TRANSMIT)}
              /\ pc' = "idle" =>
                    BitAnd(twi_soft_status', TWI_SOFT_STATUS_TRANSMIT) # 0
       /\ (pc # "idle" /\ call.fn = "stop") =>
              /\ twi_soft_status' \in
                    {twi_soft_status, ClearBits(twi_soft_status, TWI_SOFT_STATUS_TRANSMIT)}
              /\ pc' = "idle" =>
                    BitAnd(twi_soft_status', TWI_SOFT_STATUS_TRANSMIT) = 0]_vars

\* twi_soft_disable has returned in the middle of a transfer
C31_Witness ==
    /\ pc = "idle"
    /\ call.fn = "disable"
    /\ BitAnd(twi_soft_status, TWI_SOFT_STATUS_TRANSMIT) # 0

-----------------------------------------------------------------------------
(* Data validity on the bus                                                *)

-----------------------------------------------------------------------------
(* The lines after a lost arbitration                                      *)

\* C34: when twi_soft_set returns TWI_Arbitration the master holds neither
\* the clock line nor the data line.
C34_ArbitrationReleases ==
    [][(pc # "idle" /\ pc' = "idle" /\ call.fn \in {"set", "address"}
          /\ ret' = "TWI_Arbitration") =>
          /\ ~DrivenLow("SCL", TWI_SOFT_PORT', TWI_SOFT_DDR')
          /\ ~DrivenLow("SDA", TWI_SOFT_PORT', TWI_SOFT_DDR')]_vars

-----------------------------------------------------------------------------
(* Termination                                                             *)

\* The program runs on: a call that has been entered takes its next step.
Running ==
    \/ Step_twi_soft_init
    \/ Step_twi_soft_disable
    \/ Step_twi_soft_start
    \/ Step_twi_soft_stop
    \/ Step_twi_soft_address
    \/ Step_twi_soft_set
    \/ Step_twi_soft_get

\* the transport under its free caller and its scripts, the scripted
\* reception, and the display layer
InitLive == InitTwi \/ InitGet \/ Init

NextLive ==
    \/ NextTwi
    \/ Step_twi_soft_get
    \/ (script.id = "none" /\ Next)

\* Every stretch of the clock ends (the peer is fair), and the processor
\* does not stop in the middle of a call.
SpecLive ==
    InitLive /\ [][NextLive]_vars /\ WF_vars(Running) /\ WF_vars(PeerReleaseClock)

\* data bytes of the data transactions of a log of transport calls
DataBytes(log) ==
    {Len(Body(log, k)) - 1 : k \in {j \in Starts(log) :
                                     Len(log) >= j + 2 /\ log[j + 2] = <<"set", OLED_CONTROL_DATA>>}}

\* C35: with a peer that ends every stretch, every call of the software
\* transport returns; a byte sent or received releases the clock at most
\* nine times, and a segment write sends at most 128 data bytes.
C35_Terminates ==
    /\ [](pc # "idle" => <>(pc = "idle"))
    /\ [](call.fn \in {"set", "address", "get"} => pulses <= CHAR_BIT + 1)
    /\ [](op.name \in {"oled_page_segment", "oled_page"} =>
             \A n \in DataBytes(bus) : n <= OLED_COLUMN_SIZE)

\* the peer stretches the eighth pulse of a byte
C35_Witness ==
    /\ pc = "set_stretch"
    /\ call.fn = "set"
    /\ peer.scl
    /\ pulses = CHAR_BIT

-----------------------------------------------------------------------------
(* twi_soft_start in a build with TWI_SOFT_BLOCK_IE                        *)

\* The command and the repeated-start script, called with interrupts enabled
\* or disabled.
InitIe ==
    /\ column_current_position = 0
    /\ page_current_position = 0
    /\ twi_soft_bus_status = 0
    /\ gddram = <<>>
    /\ ssd = [page |-> 0, column |-> 0, phase |-> "idle", pend |-> 0, offset |-> 0]
    /\ bus = <<>>
    /\ op = [name |-> "none"]
    /\ lastpos = <<>>
    /\ nops = 0
    /\ HardwareReset
    /\ TtyReset
    /\ SREG_I \in BOOLEAN
    /\ block_ie = TRUE
    /\ sreg_entry = SREG_I
    /\ TWI_SOFT_PORT = [SCL |-> 0, SDA |-> 0]
    /\ TWI_SOFT_DDR = [SCL |-> 0, SDA |-> 0]
    /\ pullup \in BOOLEAN
    /\ pc = "idle"
    /\ sub = 1
    /\ loc = [i |-> 0, temp |-> 0, data |-> 0, received |-> 0, error |-> "TWI_None"]
    /\ ret = "TWI_None"
    /\ call = Invoke("none", 0, 0)
    /\ script \in {[id |-> "command", rest |-> ScriptCommand],
                   [id |-> "restart", rest |-> ScriptRestart]}
    /\ peer = [kind |-> "ack", scl |-> FALSE, sda |-> FALSE, count |-> 0, active |-> FALSE]
    /\ wire = [rec |-> TRUE, n |-> 0, acc |-> 0, log |-> <<>>]
    /\ pulses = 0
    /\ sent = <<>>

NextIe ==
    \/ CallScript
    \/ Step_twi_soft_start
    \/ Step_twi_soft_address
    \/ Step_twi_soft_set
    \/ Step_twi_soft_stop

SpecIe == InitIe /\ [][NextIe]_vars

\* From SCL_HIGH to the end of SCL_LOW twi_soft_start runs with interrupts
\* disabled.
StartBlocksInterrupts ==
    (block_ie /\ pc \in {"start_scl_high", "start_sda_low", "start_scl_low", "start_sei"})
        => ~SREG_I

\* C36: with TWI_SOFT_BLOCK_IE twi_soft_start runs its start condition with
\* interrupts disabled, and when it returns the interrupt enable flag is
\* what it was when the function was called.
C36_InterruptState ==
    [][/\ (block_ie /\ pc \in {"start_scl_high", "start_sda_low", "start_scl_low"}) =>
             (~SREG_I /\ ~SREG_I')
       /\ (block_ie /\ call.fn = "start" /\ pc # "idle" /\ pc' = "idle") =>
             SREG_I' = sreg_entry]_vars

-----------------------------------------------------------------------------
(* Bounds of the text cursor                                               *)

\* the data transactions of a log of transport calls
DataFrames(log) ==
    {k \in Starts(log) : Len(log) >= k + 2 /\ log[k + 2] = <<"set", OLED_CONTROL_DATA>>}

-----------------------------------------------------------------------------
(* The cell of a character                                                 *)

\* the data bytes of the first data transaction of a log
GlyphSent(log) ==
    Tail(Body(log, CHOOSE f \in DataFrames(log) : \A j \in DataFrames(log) : f <= j))

\* What tty_putchar does for a character of the font at text column k: it
\* sends FONT_WIDTH + 1 bytes, the byte after the glyph last, and the
\* controller stores that byte in column 5k + 5.
PutcharSendsSixBytes ==
    [][(op'.name = "tty_putchar"
          /\ op'.character >= FONT_ASCII_START_CHAR
          /\ op'.character <= FONT_ASCII_END_CHAR) =>
          LET at == (op'.character - FONT_ASCII_START_CHAR) * FONT_WIDTH
          IN  /\ DataFrames(bus') # {}
              /\ Len(GlyphSent(bus')) = FONT_WIDTH + 1
              /\ GlyphSent(bus')[FONT_WIDTH + 1] = <<"set", Font[at + FONT_WIDTH]>>
              /\ gddram'[tty_line][(tty_character + 1) * FONT_WIDTH] = Font[at + FONT_WIDTH]]_vars

\* C38: tty_putchar of a character of the font at text column k sends
\* exactly FONT_WIDTH bytes, the bytes of the character's glyph, and they go
\* to columns 5k..5k+4 of the current line: every other column of the line,
\* the first column of the next cell included, keeps its content.
C38_GlyphCell ==
    [][(op'.name = "tty_putchar"
          /\ op'.character >= FONT_ASCII_START_CHAR
          /\ op'.character <= FONT_ASCII_END_CHAR) =>
          LET at == (op'.character - FONT_ASCII_START_CHAR) * FONT_WIDTH
              lo == tty_character * FONT_WIDTH
          IN  /\ DataFrames(bus') # {}
              /\ Len(GlyphSent(bus')) = FONT_WIDTH
              /\ \A i \in 1..FONT_WIDTH : GlyphSent(bus')[i] = <<"set", Font[at + i - 1]>>
              /\ \A c \in 0..(OLED_COLUMN_SIZE - 1) :
                    (c < lo \/ c > lo + FONT_WIDTH - 1) =>
                        gddram'[tty_line][c] = gddram[tty_line][c]]_vars

=============================================================================
